---- MODULE Spec2Model ----
(***************************************************************************)
(* A state-machine model of the relay bot in src/main.py and src/models.py *)
(* Every action is one handler of the python-telegram-bot application      *)
(* (main(), src/main.py:877-897).  The application is built without        *)
(* concurrent_updates, so updates are handled one at a time and a handler  *)
(* runs to its end before the next update is looked at.                    *)
(***************************************************************************)
EXTENDS Integers, Sequences, FiniteSets, TLC

(***************************************************************************)
(* Program constants                                                       *)
(***************************************************************************)
\* ADMIN_ID = 7370821047 in the source.  TLC's integers are 32 bits wide, and the
\* program only ever compares the id for equality, so the model keeps its
\* leading digits: an id different from every ordinary identity's.
ADMIN_ID == 7370

CB_CONFIRM_YES == "C_Y"
CB_CONFIRM_NO == "C_N"
CB_REPLY_PREFIX == "R:"
CB_REJECT_PREFIX == "X:"
CB_CLEAN_YES == "CLN_Y"
CB_CLEAN_NO == "CLN_N"

\* time.time() + 10 in on_confirm_callback
CooldownSecs == 10
\* timedelta(minutes=15) in create_request
ThreadWindowMinutes == 15
ThreadWindow == ThreadWindowMinutes * 60

\* Python's None where an integer column or a dict lookup has no value
NULL == 0
\* Python's None where a string is expected (draft_text, username)
NONE == "None"

\* The four labels of the bottom menu (get_main_menu); the emoji prefixes of
\* the labels are left out of the strings.
MenuLabels == {"Send Message", "Language", "Owner", "Help"}

(***************************************************************************)
(* Bounds of the model                                                     *)
(***************************************************************************)
\* ordinary (non-owner) Telegram identities
Users == {1, 2}
Ids == Users \cup {ADMIN_ID}
\* a group chat the bot may be a member of
Groups == {-1001}
\* free texts a user or the owner may type
Texts == {"Hello", "Hi there"}
\* The model observes the wall clock, in seconds, at a few instants; Step is
\* the distance that puts an instant inside a cooldown.
Step == CooldownSecs \div 2

\* user.username of each identity (None: the account has no username)
Username(u) == IF u = 1 THEN "alice" ELSE IF u = ADMIN_ID THEN "FEARFLESH" ELSE NONE

VARIABLES
    now,                      \* the wall clock (time.time(), datetime.utcnow())
    requests,                 \* table requests: request_id -> row
    next_id,                  \* the next value of requests.request_id
    issued,                   \* largest request id an admin notification carries
    bans,                     \* table bans: the set of its rows
    users,                    \* table users: the user_ids that have a row
    draft_text,               \* context.user_data[...]["draft_text"] per identity
    COOLDOWN_UNTIL,           \* {user_id: unix_ts}, read with .get(id, 0)
    ADMIN_WAITING_REPLY_FOR,  \* {ADMIN_ID: request_id}
    ADMIN_GROUP_ID,           \* the module global routing target
    setting,                  \* table settings, key admin_group_id
    environ,                  \* os.environ.get("ADMINGROUPID"), <<>> when it is not set
    call,                     \* the safe_send_message / safe_edit_message call under way
    tasks,                    \* handler coroutines suspended at an await
    ev,                       \* the update the last handler ran for
    out                       \* what the last handler sent, in order

vars == <<now, requests, next_id, issued, bans, users, draft_text, COOLDOWN_UNTIL,
          ADMIN_WAITING_REPLY_FOR, ADMIN_GROUP_ID, setting, environ, call, tasks, ev, out>>

(***************************************************************************)
(* Helpers                                                                 *)
(***************************************************************************)
is_owner(user_id) == user_id = ADMIN_ID

\* a Python dict with no key
EmptyDict == [k \in {} |-> NULL]

\* dict.get(key) / dict.get(key, default)
DictGet(d, k, default) == IF k \in DOMAIN d THEN d[k] ELSE default

\* DictPop that leaves the key in place.
DictPopKeep(d, k) == d

\* dict.pop(key, None)
DictPop(d, k) == [x \in DOMAIN d \ {k} |-> d[x]]

\* d[key] = value
DictSet(d, k, v) == [x \in DOMAIN d \cup {k} |-> IF x = k THEN v ELSE d[x]]

\* One outbound call of a handler.  via: "send" (safe_send_message),
\* "edit" (q.edit_message_text on the message the button sits on) or
\* "alert" (q.answer with show_alert).  kind names the text; rid is the
\* request id carried by the attached Reply/Reject controls, text the free
\* text quoted in the message.
Msg(via, to, kind, rid, text) ==
    [via |-> via, to |-> to, kind |-> kind, rid |-> rid, text |-> text]
Send(to, kind) == Msg("send", to, kind, NULL, NONE)
Edit(to, kind) == Msg("edit", to, kind, NULL, NONE)


Max(S) == CHOOSE x \in S : \A y \in S : y <= x

(***************************************************************************)
(* DB wrappers                                                             *)
(***************************************************************************)
\* db.session.get(Ban, user_id): the rows of that key
BanRows(user_id) == {b \in bans : b.user_id = user_id}

get_ban(user_id) == BanRows(user_id) # {}

get_request(rid) == IF rid \in DOMAIN requests THEN requests[rid] ELSE NULL

HasRequest(rid) == rid \in DOMAIN requests

\* set_request_status that marks every request of the author of rid.
set_request_status_author(rid, status) ==
    IF rid \in DOMAIN requests
    THEN [r \in DOMAIN requests |->
             IF requests[r].user_id = requests[rid].user_id
             THEN [requests[r] EXCEPT !.status = status]
             ELSE requests[r]]
    ELSE requests

set_request_status(rid, status) ==
    IF rid \in DOMAIN requests
    THEN [requests EXCEPT ![rid].status = status]
    ELSE requests

upsert_user(u) == users \cup {u}

\* The rows the query of create_request filters for user_id.
ExistingRows(user_id) ==
    {r \in DOMAIN requests :
        /\ requests[r].user_id = user_id
        /\ requests[r].status = "pending"
        /\ requests[r].created_at > now - ThreadWindow
        /\ requests[r].thread_id # NULL}

\* .order_by(desc(created_at)).first(): a row of the latest created_at (the
\* database picks among equal timestamps), or no row.
ExistingFirst(user_id) ==
    {r \in ExistingRows(user_id) :
        \A q \in ExistingRows(user_id) : requests[q].created_at <= requests[r].created_at}

\* MaxPart over the pending requests of the thread only.
MaxPartPending(thread_id) ==
    LET parts == {requests[r].part_no :
                     r \in {q \in DOMAIN requests : /\ requests[q].thread_id = thread_id
                                                   /\ requests[q].status = "pending"}}
    IN IF parts = {} THEN 0 ELSE Max(parts)

\* func.max(Request.part_no) over the thread, `or 0`
MaxPart(thread_id) ==
    LET parts == {requests[r].part_no : r \in {q \in DOMAIN requests : requests[q].thread_id = thread_id}}
    IN IF parts = {} THEN 0 ELSE Max(parts)

\* NewRequest with the part number taken from the row the query returned, not
\* from the maximum over the thread.
NewRequestAfterExisting(user_id, username, text, existing) ==
    [user_id |-> user_id,
     username |-> username,
     text |-> text,
     status |-> "pending",
     created_at |-> now,
     thread_id |-> IF existing # NULL THEN requests[existing].thread_id ELSE next_id,
     part_no |-> IF existing # NULL THEN requests[existing].part_no + 1 ELSE 1]

\* NewRequest that continues the oldest thread of the user, not the thread of
\* the row the query returned.
NewRequestFirstThread(user_id, username, text, existing) ==
    LET mine == {requests[r].thread_id : r \in {q \in DOMAIN requests : requests[q].user_id = user_id}}
        first == CHOOSE t \in mine : \A x \in mine : t <= x
    IN [user_id |-> user_id,
        username |-> username,
        text |-> text,
        status |-> "pending",
        created_at |-> now,
        thread_id |-> IF existing # NULL THEN first ELSE next_id,
        part_no |-> IF existing # NULL THEN MaxPart(first) + 1 ELSE 1]

\* NewRequest without the assignment of the new id to a thread_id left None.
NewRequestNoThreadId(user_id, username, text, existing) ==
    [user_id |-> user_id,
     username |-> username,
     text |-> text,
     status |-> "pending",
     created_at |-> now,
     thread_id |-> IF existing # NULL THEN requests[existing].thread_id ELSE NULL,
     part_no |-> IF existing # NULL THEN MaxPart(requests[existing].thread_id) + 1 ELSE 1]

\* The row create_request commits, given the row `existing` its query returned
\* (NULL: no row).
NewRequest(user_id, username, text, existing) ==
    [user_id |-> user_id,
     username |-> username,
     text |-> text,
     status |-> "pending",
     created_at |-> now,
     thread_id |-> IF existing # NULL THEN requests[existing].thread_id ELSE next_id,
     part_no |-> IF existing # NULL THEN MaxPart(requests[existing].thread_id) + 1 ELSE 1]

\* ("@" + user.username) if user.username else "(no username)"
Handle(u) == IF Username(u) # NONE THEN <<"@", Username(u)>> ELSE <<"(no username)">>

\* The update a handler runs for: the handler h, the sender `from`, the text or
\* callback prefix `data`, the number n the update carries (a chat, a request
\* id, a group id, a user id) and the command's arguments (for a group button:
\* what get_chat_member answered); and, for the record,
\* three things the handler found when it began: the request id in the reply
\* slot, the status of the request a Reply/Reject button names, and the Ban
\* rows of the user a /ban or /unban names.
Ev(h, from, data, n, args) ==
    [h |-> h, from |-> from, data |-> data, n |-> n, args |-> args,
     waiting |-> DictGet(ADMIN_WAITING_REPLY_FOR, ADMIN_ID, NULL),
     status0 |-> IF data \in {CB_REPLY_PREFIX, CB_REJECT_PREFIX} /\ n \in DOMAIN requests
                 THEN requests[n].status ELSE NONE,
     ban0 |-> IF h \in {"ban_cmd", "unban_cmd"} /\ n # NULL THEN BanRows(n) ELSE {}]

\* No safe_send_message or safe_edit_message call is under way.
NoCall ==
    [pc |-> "idle", fn |-> NONE, responses |-> <<>>, retry_after |-> 0,
     attempts |-> 0, slept |-> 0, ret |-> NONE]

\* the largest number of users the status page is computed for
MaxStatusUsers == 21

TypeOK ==
    /\ now \in Nat
    /\ next_id \in Nat \ {0}
    /\ issued \in Nat
    /\ DOMAIN requests \subseteq 1..issued
    /\ \A r \in DOMAIN requests : r < next_id
    /\ users \subseteq Ids \cup 1..MaxStatusUsers
    /\ DOMAIN ADMIN_WAITING_REPLY_FOR \subseteq {ADMIN_ID}

Init ==
    /\ now = 0
    /\ requests = EmptyDict
    /\ next_id = 1
    /\ issued = 0
    /\ bans = {}
    /\ users = {}
    /\ draft_text = [u \in Ids |-> NONE]
    /\ COOLDOWN_UNTIL = [u \in Ids |-> 0]
    /\ ADMIN_WAITING_REPLY_FOR = EmptyDict
    /\ ADMIN_GROUP_ID = NULL
    /\ setting = EmptyDict
    /\ environ = <<>>
    /\ call = NoCall
    /\ tasks = {}
    /\ ev = Ev("init", NULL, NONE, NULL, <<>>)
    /\ out = <<>>

(***************************************************************************)
(* The wall clock moves on between two updates.                            *)
(***************************************************************************)
Tick(t) ==
    /\ t > now
    /\ now' = t
    /\ UNCHANGED <<environ, call, tasks>>
    /\ ev' = Ev("tick", NULL, NONE, NULL, <<>>)
    /\ out' = <<>>
    /\ UNCHANGED <<requests, next_id, issued, bans, users, draft_text, COOLDOWN_UNTIL,
                   ADMIN_WAITING_REPLY_FOR, ADMIN_GROUP_ID, setting>>

(***************************************************************************)
(* user_or_admin_text: a text message that is not a command, from identity *)
(* u, written in chat `chat` (update.effective_chat.id).                   *)
(***************************************************************************)
\* TextBranch without the cooldown gate.
TextBranchNoCooldown(u, text) ==
    IF text \in MenuLabels THEN "menu"
    ELSE IF ~is_owner(u) /\ get_ban(u) THEN "banned"
    ELSE IF is_owner(u) /\ DictGet(ADMIN_WAITING_REPLY_FOR, ADMIN_ID, NULL) = NULL THEN "owner_self"
    ELSE IF is_owner(u) /\ ~HasRequest(ADMIN_WAITING_REPLY_FOR[ADMIN_ID]) THEN "reply_not_found"
    ELSE IF is_owner(u) /\ get_ban(requests[ADMIN_WAITING_REPLY_FOR[ADMIN_ID]].user_id) THEN "reply_banned"
    ELSE IF is_owner(u) THEN "reply"
    ELSE "draft"

\* The branch of user_or_admin_text that the update takes.
\* TextBranch whose ban gate does not let the owner through.
TextBranchOwnerGated(u, text) ==
    IF text \in MenuLabels THEN "menu"
    ELSE IF get_ban(u) THEN "banned"
    ELSE IF ~is_owner(u) /\ now < DictGet(COOLDOWN_UNTIL, u, 0) THEN "cooldown"
    ELSE IF is_owner(u) /\ DictGet(ADMIN_WAITING_REPLY_FOR, ADMIN_ID, NULL) = NULL THEN "owner_self"
    ELSE IF is_owner(u) /\ ~HasRequest(ADMIN_WAITING_REPLY_FOR[ADMIN_ID]) THEN "reply_not_found"
    ELSE IF is_owner(u) /\ get_ban(requests[ADMIN_WAITING_REPLY_FOR[ADMIN_ID]].user_id) THEN "reply_banned"
    ELSE IF is_owner(u) THEN "reply"
    ELSE "draft"

TextBranch(u, text) ==
    IF text \in MenuLabels THEN "menu"
    ELSE IF ~is_owner(u) /\ get_ban(u) THEN "banned"
    ELSE IF ~is_owner(u) /\ now < DictGet(COOLDOWN_UNTIL, u, 0) THEN "cooldown"
    ELSE IF is_owner(u) /\ DictGet(ADMIN_WAITING_REPLY_FOR, ADMIN_ID, NULL) = NULL THEN "owner_self"
    ELSE IF is_owner(u) /\ ~HasRequest(ADMIN_WAITING_REPLY_FOR[ADMIN_ID]) THEN "reply_not_found"
    ELSE IF is_owner(u) /\ get_ban(requests[ADMIN_WAITING_REPLY_FOR[ADMIN_ID]].user_id) THEN "reply_banned"
    ELSE IF is_owner(u) THEN "reply"
    ELSE "draft"

\* StoreDraft that keeps a draft already there.
StoreDraftKeepFirst(u, text) ==
    IF draft_text[u] # NONE THEN draft_text ELSE [draft_text EXCEPT ![u] = text]

\* StoreDraft into a slot that all users share.
StoreDraftShared(u, text) == [v \in DOMAIN draft_text |-> text]

\* context.user_data["draft_text"] = text
StoreDraft(u, text) == [draft_text EXCEPT ![u] = text]

user_or_admin_text(u, chat, text) ==
    LET branch == TextBranch(u, text)
        rid == DictGet(ADMIN_WAITING_REPLY_FOR, ADMIN_ID, NULL)
    IN
    /\ UNCHANGED <<environ, call, tasks>>
    /\ ev' = Ev("text", u, text, chat, <<>>)
    /\ users' = IF (branch = "menu" /\ text = "Language") \/ branch = "draft"
                THEN upsert_user(u) ELSE users
    /\ draft_text' = IF branch = "draft" THEN StoreDraft(u, text) ELSE draft_text
    /\ ADMIN_WAITING_REPLY_FOR' =
          IF branch \in {"reply_not_found", "reply_banned", "reply"}
          THEN DictPop(ADMIN_WAITING_REPLY_FOR, ADMIN_ID)
          ELSE ADMIN_WAITING_REPLY_FOR
    /\ requests' = IF branch = "reply" THEN set_request_status(rid, "approved") ELSE requests
    /\ out' =
          CASE branch = "menu" /\ text = "Send Message" -> <<Send(u, "menu_send")>>
            [] branch = "menu" /\ text = "Language" -> <<Send(u, "lang_choose")>>
            [] branch = "menu" /\ text = "Owner" -> <<Send(u, "owner_info")>>
            [] branch = "menu" /\ text = "Help" -> <<Send(u, "help")>>
            [] branch = "banned" -> <<Send(u, "banned")>>
            [] branch = "cooldown" -> <<Send(u, "cooldown")>>
            [] branch = "owner_self" -> <<Send(u, "owner_self")>>
            [] branch = "reply_not_found" -> <<Send(chat, "not_found")>>
            [] branch = "reply_banned" -> <<Send(chat, "cannot_reply_banned")>>
            [] branch = "reply" ->
                  <<Msg("send", requests[rid].user_id, "owner_reply", NULL, text),
                    Send(chat, "admin_reply_sent")>>
            [] branch = "draft" -> <<Send(u, "confirm_prompt")>>
    /\ UNCHANGED <<now, next_id, issued, bans, COOLDOWN_UNTIL, ADMIN_GROUP_ID, setting>>

(***************************************************************************)
(* safe_send_message and safe_edit_message.  `responses` is what the       *)
(* transport answers to the first, second, ... attempt of the call: "sent" *)
(* (a Message comes back), "RetryAfter", "not_modified" (the TelegramError *)
(* 'Message is not modified'), "TelegramError" (any other) or "Exception". *)
(* retry_after is e.retry_after of the rate-limit signals.  The call ends  *)
(* with ret "message", "True" or "None"; "raise" would be an exception     *)
(* leaving the function.                                                   *)
(***************************************************************************)
max_retries == 3

Outcomes == {"sent", "RetryAfter", "not_modified", "TelegramError", "Exception"}

\* RetryLoop that tries once more than max_retries.
RECURSIVE RetryLoopOneMore(_, _, _, _)
RetryLoopOneMore(fn, responses, retry_after, attempt) ==
    IF attempt > max_retries \/ attempt >= Len(responses)
    THEN [ret |-> "None", attempts |-> attempt, slept |-> attempt * retry_after]
    ELSE LET r == responses[attempt + 1] IN
         IF r = "sent"
         THEN [ret |-> "message", attempts |-> attempt + 1, slept |-> attempt * retry_after]
         ELSE IF r = "RetryAfter"
         THEN RetryLoopOneMore(fn, responses, retry_after, attempt + 1)
         ELSE IF r = "not_modified" /\ fn = "safe_edit_message"
         THEN [ret |-> "True", attempts |-> attempt + 1, slept |-> attempt * retry_after]
         ELSE [ret |-> "None", attempts |-> attempt + 1, slept |-> attempt * retry_after]

\* RetryLoop that lets the error of a failed attempt, and the last rate-limit
\* signal, leave the function.
RECURSIVE RetryLoopRaise(_, _, _, _)
RetryLoopRaise(fn, responses, retry_after, attempt) ==
    IF attempt = max_retries
    THEN [ret |-> "raise", attempts |-> attempt, slept |-> attempt * retry_after]
    ELSE LET r == responses[attempt + 1] IN
         IF r = "sent"
         THEN [ret |-> "message", attempts |-> attempt + 1, slept |-> attempt * retry_after]
         ELSE IF r = "RetryAfter"
         THEN RetryLoopRaise(fn, responses, retry_after, attempt + 1)
         ELSE IF r = "not_modified" /\ fn = "safe_edit_message"
         THEN [ret |-> "True", attempts |-> attempt + 1, slept |-> attempt * retry_after]
         ELSE [ret |-> "raise", attempts |-> attempt + 1, slept |-> attempt * retry_after]

\* for attempt in range(max_retries): try ... except RetryAfter: sleep;
\* except TelegramError / Exception: break.  return None.  Before attempt
\* number attempt + 1 the loop has run `attempt` times, each ended by a
\* RetryAfter and a sleep.
RECURSIVE RetryLoop(_, _, _, _)
RetryLoop(fn, responses, retry_after, attempt) ==
    IF attempt = max_retries
    THEN [ret |-> "None", attempts |-> attempt, slept |-> attempt * retry_after]
    ELSE LET r == responses[attempt + 1] IN
         IF r = "sent"
         THEN [ret |-> "message", attempts |-> attempt + 1, slept |-> attempt * retry_after]
         ELSE IF r = "RetryAfter"
         THEN RetryLoop(fn, responses, retry_after, attempt + 1)
         ELSE IF r = "not_modified" /\ fn = "safe_edit_message"
         THEN [ret |-> "True", attempts |-> attempt + 1, slept |-> attempt * retry_after]
         ELSE [ret |-> "None", attempts |-> attempt + 1, slept |-> attempt * retry_after]

\* fn is called: the transport will answer with `responses`.
Called(fn, responses, retry_after) ==
    [pc |-> "called", fn |-> fn, responses |-> responses, retry_after |-> retry_after,
     attempts |-> 0, slept |-> 0, ret |-> NONE]

\* The call of fn under way, from its first line to its return.
SafeCall(fn) ==
    LET res == RetryLoop(fn, call.responses, call.retry_after, 0) IN
    /\ call.pc = "called" /\ call.fn = fn
    /\ call' = [call EXCEPT !.pc = "done", !.attempts = res.attempts,
                            !.slept = res.slept, !.ret = res.ret]
    /\ UNCHANGED <<now, requests, next_id, issued, bans, users, draft_text, COOLDOWN_UNTIL,
                   ADMIN_WAITING_REPLY_FOR, ADMIN_GROUP_ID, setting, environ, tasks, ev, out>>

safe_send_message == SafeCall("safe_send_message")

safe_edit_message == SafeCall("safe_edit_message")

(***************************************************************************)
(* on_confirm_callback: identity u presses Yes (C_Y) or No (C_N) under a   *)
(* confirmation prompt.  The handler reads the clock in create_request and *)
(* again in its last line, after its awaits: `later` is the second reading.*)
(***************************************************************************)
\* ConfirmBranch without the ban gate.
ConfirmBranchNoBanGate(u, data) ==
    IF is_owner(u) THEN "owner"
    ELSE IF data = CB_CONFIRM_NO THEN "no"
    ELSE IF draft_text[u] = NONE THEN "no_draft"
    ELSE "create"

\* ConfirmBranch without the check for a missing draft.
ConfirmBranchNoDraftCheck(u, data) ==
    IF ~is_owner(u) /\ get_ban(u) THEN "banned"
    ELSE IF is_owner(u) THEN "owner"
    ELSE IF data = CB_CONFIRM_NO THEN "no"
    ELSE "create"

ConfirmBranch(u, data) ==
    IF ~is_owner(u) /\ get_ban(u) THEN "banned"
    ELSE IF is_owner(u) THEN "owner"
    ELSE IF data = CB_CONFIRM_NO THEN "no"
    ELSE IF draft_text[u] = NONE THEN "no_draft"
    ELSE "create"

on_confirm_callback(u, data, existing, later) ==
    LET branch == ConfirmBranch(u, data)
        rid == next_id
        row == NewRequest(u, Handle(u), draft_text[u], existing)
        target_chat == IF ADMIN_GROUP_ID # NULL THEN ADMIN_GROUP_ID ELSE ADMIN_ID
    IN
    /\ UNCHANGED <<environ, call, tasks>>
    /\ ev' = Ev("confirm", u, data, NULL, <<>>)
    /\ IF branch = "create"
       THEN /\ existing \in (IF ExistingFirst(u) = {} THEN {NULL} ELSE ExistingFirst(u))
            /\ now <= later
            /\ requests' = DictSet(requests, rid, row)
            /\ next_id' = next_id + 1
            /\ issued' = IF rid > issued THEN rid ELSE issued
            /\ draft_text' = [draft_text EXCEPT ![u] = NONE]
            /\ now' = later
            /\ COOLDOWN_UNTIL' = [COOLDOWN_UNTIL EXCEPT ![u] = later + CooldownSecs]
            /\ out' = <<Msg("send", target_chat, "admin_new", rid, row.text),
                        Edit(u, "sent_to_admin")>>
       ELSE /\ existing = NULL /\ later = now
            /\ draft_text' = IF branch = "no" THEN [draft_text EXCEPT ![u] = NONE] ELSE draft_text
            /\ out' = CASE branch = "banned" -> <<Edit(u, "banned")>>
                        [] branch = "owner" -> <<>>
                        [] OTHER -> <<Edit(u, "write_again")>>
            /\ UNCHANGED <<now, requests, next_id, issued, COOLDOWN_UNTIL>>
    /\ UNCHANGED <<bans, users, ADMIN_WAITING_REPLY_FOR, ADMIN_GROUP_ID, setting>>


(***************************************************************************)
(* Command arguments.  context.args is the message split at whitespace; a  *)
(* token is modelled as the sequence of its characters, and int() as the   *)
(* parse of an optional sign followed by decimal digits.                   *)
(***************************************************************************)
Digits == <<"0", "1", "2", "3", "4", "5", "6", "7", "8", "9">>

IsDigit(c) == \E i \in 1..10 : Digits[i] = c

DigitVal(c) == (CHOOSE i \in 1..10 : Digits[i] = c) - 1

RECURSIVE DigitsVal(_)
DigitsVal(ds) ==
    IF ds = <<>> THEN 0
    ELSE DigitsVal(SubSeq(ds, 1, Len(ds) - 1)) * 10 + DigitVal(ds[Len(ds)])

\* the digits of a token, its sign removed
Unsigned(tok) == IF tok # <<>> /\ tok[1] \in {"-", "+"} THEN Tail(tok) ELSE tok

\* int(tok) raises ValueError
ValueError(tok) == Unsigned(tok) = <<>> \/ \E i \in 1..Len(Unsigned(tok)) : ~IsDigit(Unsigned(tok)[i])

\* int(tok), when it does not raise
ParseInt(tok) ==
    IF tok[1] = "-" THEN 0 - DigitsVal(Unsigned(tok)) ELSE DigitsVal(Unsigned(tok))

\* str(n) of an integer
RECURSIVE NatStr(_)
NatStr(n) == IF n < 10 THEN <<Digits[n + 1]>> ELSE NatStr(n \div 10) \o <<Digits[(n % 10) + 1]>>

Str(n) == IF n < 0 THEN <<"-">> \o NatStr(0 - n) ELSE NatStr(n)

\* get_setting that asks the environment before the table.
get_setting_env_first(key) ==
    IF environ # <<>> THEN environ
    ELSE IF key \in DOMAIN setting THEN setting[key] ELSE <<>>

\* get_setting(key): the row's value, else the environment variable named
\* like the key in upper case without underscores.  An unset variable and
\* an empty one are both <<>>: None and "" are equally false at line 285.
get_setting(key) ==
    IF key \in DOMAIN setting THEN setting[key] ELSE environ

\* The initial load of ADMIN_GROUP_ID: a value that is false stays (and
\* routes nothing), one that int() refuses becomes None.
LoadAdminGroupId ==
    LET value == get_setting("admin_group_id") IN
    IF value = <<>> THEN NULL
    ELSE IF ValueError(value) THEN NULL
    ELSE ParseInt(value)

\* set_setting(key, value) on the table settings
set_setting(key, value) == DictSet(setting, key, value)

(***************************************************************************)
(* admin_buttons: the catch-all callback handler.  Identity u presses, in  *)
(* chat `chat`, a button whose callback_data is prefix + str(n).  `member` *)
(* is what get_chat_member answers for the bot in group n: a status, or    *)
(* "error" when the call raises.                                           *)
(***************************************************************************)
CB_GRP_YES == "AGY:"
CB_GRP_RETRY == "AGR:"
CB_STAT_PAGE == "ST_P:"
CB_STAT_USER == "ST_U:"
CB_STAT_BACK == "ST_B:"
CB_STAT_REFRESH == "ST_R:"

MemberStatus == {"administrator", "creator", "member", "left", "error"}

\* RejectNotice that tells the author only of the first rejection.
RejectNoticeOnce(n) ==
    IF ~get_ban(requests[n].user_id) /\ requests[n].status = "pending"
    THEN <<Send(requests[n].user_id, "denied")>>
    ELSE <<>>

\* if not get_ban(target_user_id): send the denial notice
RejectNotice(n) ==
    IF ~get_ban(requests[n].user_id)
    THEN <<Send(requests[n].user_id, "denied")>>
    ELSE <<>>

\* get_paginated_users(page, per_page=20): the number of rows of the page and
\* the count of the query, which leaves the owner's row out.  (The order of
\* the rows, by updated_at, is not modelled.)
per_page == 20

get_paginated_users(page) ==
    LET total == Cardinality(users \ {ADMIN_ID})
        rest == total - page * per_page
    IN [users |-> IF rest < 0 THEN 0 ELSE IF rest > per_page THEN per_page ELSE rest,
        total |-> total]

\* render_status_page: the user buttons, the Prev and Next buttons and the
\* text "User List (Page {page + 1}) Total Users: {total - 1 if total > 0 else 0}"
render_status_page(page) ==
    LET res == get_paginated_users(page) IN
    [buttons |-> res.users,
     prev |-> page > 0,
     next |-> (page + 1) * 20 < res.total,
     page |-> page + 1,
     total |-> IF res.total > 0 THEN res.total - 1 ELSE 0]

\* AdminButtonBranch whose Reply branch does not look at the author's ban.
AdminButtonBranchNoBanCheck(u, prefix, n, member) ==
    IF u # ADMIN_ID THEN "not_allowed"
    ELSE IF prefix \in {CB_STAT_PAGE, CB_STAT_REFRESH, CB_STAT_BACK} THEN "status_page"
    ELSE IF prefix = CB_STAT_USER THEN "user_detail"
    ELSE IF prefix \in {CB_GRP_YES, CB_GRP_RETRY} THEN
        (IF member \in {"administrator", "creator"} THEN "group_ok"
         ELSE IF member = "error" THEN "group_error" ELSE "group_retry")
    ELSE IF prefix = CB_REPLY_PREFIX THEN
        (IF ~HasRequest(n) THEN "reply_not_found" ELSE "start_reply")
    ELSE IF prefix = CB_REJECT_PREFIX THEN
        (IF ~HasRequest(n) THEN "reject_not_found" ELSE "reject")
    ELSE "none"

\* AdminButtonBranch that registers the group of which the bot is a plain
\* member.
AdminButtonBranchAnyMember(u, prefix, n, member) ==
    IF u # ADMIN_ID THEN "not_allowed"
    ELSE IF prefix \in {CB_STAT_PAGE, CB_STAT_REFRESH, CB_STAT_BACK} THEN "status_page"
    ELSE IF prefix = CB_STAT_USER THEN "user_detail"
    ELSE IF prefix \in {CB_GRP_YES, CB_GRP_RETRY} THEN
        (IF member \in {"administrator", "creator", "member"} THEN "group_ok"
         ELSE IF member = "error" THEN "group_error" ELSE "group_retry")
    ELSE IF prefix = CB_REPLY_PREFIX THEN
        (IF ~HasRequest(n) THEN "reply_not_found"
         ELSE IF get_ban(requests[n].user_id) THEN "reply_banned"
         ELSE "start_reply")
    ELSE IF prefix = CB_REJECT_PREFIX THEN
        (IF ~HasRequest(n) THEN "reject_not_found" ELSE "reject")
    ELSE "none"

AdminButtonBranch(u, prefix, n, member) ==
    IF u # ADMIN_ID THEN "not_allowed"
    ELSE IF prefix \in {CB_STAT_PAGE, CB_STAT_REFRESH, CB_STAT_BACK} THEN "status_page"
    ELSE IF prefix = CB_STAT_USER THEN "user_detail"
    ELSE IF prefix \in {CB_GRP_YES, CB_GRP_RETRY} THEN
        (IF member \in {"administrator", "creator"} THEN "group_ok"
         ELSE IF member = "error" THEN "group_error" ELSE "group_retry")
    ELSE IF prefix = CB_REPLY_PREFIX THEN
        (IF ~HasRequest(n) THEN "reply_not_found"
         ELSE IF get_ban(requests[n].user_id) THEN "reply_banned"
         ELSE "start_reply")
    ELSE IF prefix = CB_REJECT_PREFIX THEN
        (IF ~HasRequest(n) THEN "reject_not_found" ELSE "reject")
    ELSE "none"

\* SetWaitingReply as setdefault: a reply already started is kept.
SetWaitingReplyKeepFirst(rid) ==
    IF ADMIN_ID \in DOMAIN ADMIN_WAITING_REPLY_FOR
    THEN ADMIN_WAITING_REPLY_FOR
    ELSE DictSet(ADMIN_WAITING_REPLY_FOR, ADMIN_ID, rid)

\* ADMIN_WAITING_REPLY_FOR[ADMIN_ID] = rid
SetWaitingReply(rid) == DictSet(ADMIN_WAITING_REPLY_FOR, ADMIN_ID, rid)

admin_buttons(u, chat, prefix, n, member) ==
    LET branch == AdminButtonBranch(u, prefix, n, member) IN
    /\ UNCHANGED <<environ, call, tasks>>
    /\ ev' = Ev("admin_button", u, prefix, n,
                IF prefix \in {CB_GRP_YES, CB_GRP_RETRY} THEN <<member>> ELSE <<>>)
    /\ ADMIN_WAITING_REPLY_FOR' =
          IF branch = "start_reply"
          THEN SetWaitingReply(n)
          ELSE ADMIN_WAITING_REPLY_FOR
    /\ requests' = IF branch = "reject" THEN set_request_status(n, "rejected") ELSE requests
    /\ setting' = IF branch = "group_ok" THEN set_setting("admin_group_id", Str(n)) ELSE setting
    /\ ADMIN_GROUP_ID' = IF branch = "group_ok" THEN n ELSE ADMIN_GROUP_ID
    /\ out' =
          CASE branch = "not_allowed" -> <<Msg("alert", u, "not_allowed", NULL, NONE)>>
            [] branch = "status_page" ->
                  <<Msg("edit", chat, "status_page", NULL, render_status_page(n))>>
            [] branch = "user_detail" ->
                  IF n \in users THEN <<Edit(chat, "user_detail")>>
                  ELSE <<Msg("alert", u, "user_not_found", NULL, NONE)>>
            [] branch = "group_ok" -> <<Edit(chat, "group_done"), Send(n, "group_activated")>>
            [] branch = "group_retry" -> <<Msg("edit", chat, "group_check_again", n, NONE)>>
            [] branch = "group_error" -> <<Msg("edit", chat, "group_error", n, NONE)>>
            [] branch = "reply_not_found" -> <<Send(ADMIN_ID, "not_found")>>
            [] branch = "reply_banned" -> <<Send(ADMIN_ID, "cannot_reply_banned")>>
            [] branch = "start_reply" ->
                  <<Send(ADMIN_ID, "admin_reply_prompt"), Edit(chat, "stamp_replied")>>
            [] branch = "reject_not_found" -> <<Send(ADMIN_ID, "not_found")>>
            [] branch = "reject" ->
                  RejectNotice(n)
                  \o <<Send(ADMIN_ID, "admin_rejected"), Edit(chat, "stamp_denied")>>
            [] branch = "none" -> <<>>
    /\ UNCHANGED <<now, next_id, issued, bans, users, draft_text, COOLDOWN_UNTIL>>

(***************************************************************************)
(* clean_cmd and clean_callback.  DELETE FROM requests empties the table;  *)
(* what the id counter does then is the database's business: a PostgreSQL  *)
(* sequence goes on, an SQLite rowid starts again at 1.  `reset` is that   *)
(* choice.                                                                 *)
(***************************************************************************)
clean_requests == EmptyDict

clean_cmd(u) ==
    /\ UNCHANGED <<environ, call, tasks>>
    /\ ev' = Ev("clean_cmd", u, NONE, NULL, <<>>)
    /\ out' = IF ~is_owner(u) THEN <<Send(u, "not_owner")>>
              ELSE <<Send(ADMIN_ID, "clean_prompt")>>
    /\ UNCHANGED <<now, requests, next_id, issued, bans, users, draft_text, COOLDOWN_UNTIL,
                   ADMIN_WAITING_REPLY_FOR, ADMIN_GROUP_ID, setting>>

\* CleanBranch without the owner check.
CleanBranchNoOwnerCheck(u, data) ==
    IF data = CB_CLEAN_NO THEN "no"
    ELSE "clean"

\* CleanBranch that does not look at which button was pressed.
CleanBranchAnyButton(u, data) ==
    IF ~is_owner(u) THEN "not_owner"
    ELSE "clean"

CleanBranch(u, data) ==
    IF ~is_owner(u) THEN "not_owner"
    ELSE IF data = CB_CLEAN_NO THEN "no"
    ELSE "clean"

clean_callback(u, chat, data, reset) ==
    LET branch == CleanBranch(u, data) IN
    /\ UNCHANGED <<environ, call, tasks>>
    /\ ev' = Ev("clean_callback", u, data, NULL, <<>>)
    /\ requests' = IF branch = "clean" THEN clean_requests ELSE requests
    /\ next_id' = IF branch = "clean" /\ reset THEN 1 ELSE next_id
    /\ branch # "clean" => ~reset
    /\ out' = CASE branch = "not_owner" -> <<>>
                [] branch = "no" -> <<Edit(chat, "clean_cancelled")>>
                [] branch = "clean" -> <<Edit(chat, "clean_completed")>>
    /\ UNCHANGED <<now, issued, bans, users, draft_text, COOLDOWN_UNTIL,
                   ADMIN_WAITING_REPLY_FOR, ADMIN_GROUP_ID, setting>>

(***************************************************************************)
(* ban_cmd, unban_cmd, banned_cmd                                          *)
(***************************************************************************)
\* " ".join(context.args)
RECURSIVE Join(_)
Join(args) ==
    IF Len(args) = 1 THEN args[1]
    ELSE args[1] \o <<" ">> \o Join(Tail(args))

\* the default of ban_user's reason and of ban_cmd
NoReason == <<"No reason">>

\* ban_user that adds a row whether or not the user has one.
ban_user_add(user_id, reason) ==
    bans \cup {[user_id |-> user_id, reason |-> reason, banned_at |-> now]}

\* a new row if the user has none, else the row's reason and banned_at
\* overwritten
ban_user(user_id, reason) ==
    LET ban == BanRows(user_id) IN
    IF ban = {}
    THEN bans \cup {[user_id |-> user_id, reason |-> reason, banned_at |-> now]}
    ELSE (bans \ ban) \cup {[b EXCEPT !.reason = reason, !.banned_at = now] : b \in ban}

unban_user(user_id) ==
    LET ban == BanRows(user_id) IN
    IF ban # {} THEN bans \ ban ELSE bans

\* CmdBranch that answers a bad number like a missing one.
CmdBranchUsageOnly(u, args) ==
    IF ~is_owner(u) THEN "not_owner"
    ELSE IF args = <<>> \/ ValueError(args[1]) THEN "usage"
    ELSE "ok"

CmdBranch(u, args) ==
    IF ~is_owner(u) THEN "not_owner"
    ELSE IF args = <<>> THEN "usage"
    ELSE IF ValueError(args[1]) THEN "invalid"
    ELSE "ok"

ban_cmd(u, args) ==
    LET branch == CmdBranch(u, args)
        reason == IF Len(args) > 1 THEN Join(Tail(args)) ELSE NoReason
    IN
    /\ UNCHANGED <<environ, call, tasks>>
    /\ ev' = Ev("ban_cmd", u, NONE, IF branch = "ok" THEN ParseInt(args[1]) ELSE NULL, args)
    /\ bans' = IF branch = "ok" THEN ban_user(ParseInt(args[1]), reason) ELSE bans
    /\ out' = CASE branch = "not_owner" -> <<Send(u, "not_owner")>>
                [] branch = "usage" -> <<Send(ADMIN_ID, "ban_usage")>>
                [] branch = "invalid" -> <<Send(ADMIN_ID, "invalid_user_id")>>
                [] branch = "ok" -> <<Msg("send", ADMIN_ID, "banned_ok", ParseInt(args[1]), NONE)>>
    /\ UNCHANGED <<now, requests, next_id, issued, users, draft_text, COOLDOWN_UNTIL,
                   ADMIN_WAITING_REPLY_FOR, ADMIN_GROUP_ID, setting>>

unban_cmd(u, args) ==
    LET branch == CmdBranch(u, args) IN
    /\ UNCHANGED <<environ, call, tasks>>
    /\ ev' = Ev("unban_cmd", u, NONE, IF branch = "ok" THEN ParseInt(args[1]) ELSE NULL, args)
    /\ bans' = IF branch = "ok" THEN unban_user(ParseInt(args[1])) ELSE bans
    /\ out' = CASE branch = "not_owner" -> <<Send(u, "not_owner")>>
                [] branch = "usage" -> <<Send(ADMIN_ID, "unban_usage")>>
                [] branch = "invalid" -> <<Send(ADMIN_ID, "invalid_user_id")>>
                [] branch = "ok" -> <<Msg("send", ADMIN_ID, "unbanned_ok", ParseInt(args[1]), NONE)>>
    /\ UNCHANGED <<now, requests, next_id, issued, users, draft_text, COOLDOWN_UNTIL,
                   ADMIN_WAITING_REPLY_FOR, ADMIN_GROUP_ID, setting>>

\* a command that reads and answers and writes nothing: banned, chatid
\* (which answers a non-owner with nothing at all)
ReadOnlyCmds == {"banned_cmd", "chatid_cmd"}

read_only_cmd(h, u, chat) ==
    /\ UNCHANGED <<environ, call, tasks>>
    /\ ev' = Ev(h, u, NONE, chat, <<>>)
    /\ out' = IF ~is_owner(u)
              THEN (IF h = "chatid_cmd" THEN <<>> ELSE <<Send(u, "not_owner")>>)
              ELSE <<Send(IF h = "chatid_cmd" THEN chat ELSE ADMIN_ID, h)>>
    /\ UNCHANGED <<now, requests, next_id, issued, bans, users, draft_text, COOLDOWN_UNTIL,
                   ADMIN_WAITING_REPLY_FOR, ADMIN_GROUP_ID, setting>>

status_cmd(u) ==
    /\ UNCHANGED <<environ, call, tasks>>
    /\ ev' = Ev("status_cmd", u, NONE, u, <<>>)
    /\ out' = IF ~is_owner(u)
              THEN <<Send(u, "not_owner")>>
              ELSE <<Msg("send", ADMIN_ID, "status_page", NULL, render_status_page(0))>>
    /\ UNCHANGED <<now, requests, next_id, issued, bans, users, draft_text, COOLDOWN_UNTIL,
                   ADMIN_WAITING_REPLY_FOR, ADMIN_GROUP_ID, setting>>

(***************************************************************************)
(* search_requests and search_cmd.  Strings are sequences of characters.   *)
(* ilike is SQL's case-insensitive LIKE: in the pattern, % stands for any  *)
(* run of characters and _ for any one character.                          *)
(***************************************************************************)
SearchLimit == 10

\* the lower-case form of a character
Lower(c) ==
    CASE c = "A" -> "a"
      [] c = "B" -> "b"
      [] OTHER -> c

\* str ILIKE pattern
RECURSIVE ILike(_, _)
ILike(str, pattern) ==
    IF pattern = <<>> THEN str = <<>>
    ELSE IF Head(pattern) = "%"
         THEN ILike(str, Tail(pattern)) \/ (str # <<>> /\ ILike(Tail(str), pattern))
    ELSE /\ str # <<>>
         /\ Head(pattern) = "_" \/ Lower(Head(pattern)) = Lower(Head(str))
         /\ ILike(Tail(str), Tail(pattern))

\* query.isdigit()
isdigit(query) == query # <<>> /\ \A i \in 1..Len(query) : IsDigit(query[i])

\* the filter of the query, by its shape
SearchFilter(query) ==
    IF Head(query) = "@"
    THEN {r \in DOMAIN requests : ILike(requests[r].username, <<"%">> \o Tail(query) \o <<"%">>)}
    ELSE IF isdigit(query)
    THEN {r \in DOMAIN requests : requests[r].user_id = DigitsVal(query) \/ r = DigitsVal(query)}
    ELSE {r \in DOMAIN requests : ILike(requests[r].text, <<"%">> \o query \o <<"%">>)}

\* order_by(desc(Request.created_at)) of the rows S, as their ids
RECURSIVE NewestFirst(_)
NewestFirst(S) ==
    IF S = {} THEN <<>>
    ELSE LET r == CHOOSE x \in S : \A y \in S : requests[y].created_at <= requests[x].created_at
         IN <<r>> \o NewestFirst(S \ {r})

\* .limit(n)
Limit(rows, n) == SubSeq(rows, 1, IF Len(rows) < n THEN Len(rows) ELSE n)

search_requests(query) == Limit(NewestFirst(SearchFilter(query)), SearchLimit)

\* search_cmd: the answer lists the rows found, in their order.
search_cmd(u, args) ==
    /\ UNCHANGED <<environ, call, tasks>>
    /\ ev' = Ev("search_cmd", u, NONE, NULL, args)
    /\ out' = IF ~is_owner(u) THEN <<Send(u, "not_owner")>>
              ELSE IF args = <<>> THEN <<Send(ADMIN_ID, "search_usage")>>
              ELSE IF search_requests(Join(args)) = <<>> THEN <<Send(ADMIN_ID, "no_match")>>
              ELSE <<Msg("send", ADMIN_ID, "search_results", NULL, search_requests(Join(args)))>>
    /\ UNCHANGED <<now, requests, next_id, issued, bans, users, draft_text, COOLDOWN_UNTIL,
                   ADMIN_WAITING_REPLY_FOR, ADMIN_GROUP_ID, setting>>

(***************************************************************************)
(* addgrp_cmd                                                              *)
(***************************************************************************)
addgrp_cmd(u, args) ==
    LET branch == CmdBranch(u, args) IN
    /\ UNCHANGED <<environ, call, tasks>>
    /\ ev' = Ev("addgrp_cmd", u, NONE, NULL, args)
    /\ out' = CASE branch = "not_owner" -> <<Send(u, "not_owner")>>
                [] branch = "usage" -> <<Send(ADMIN_ID, "addgrp_usage")>>
                [] branch = "invalid" -> <<Send(ADMIN_ID, "invalid_group_id")>>
                [] branch = "ok" -> <<Msg("send", ADMIN_ID, "addgrp_prompt", ParseInt(args[1]), NONE)>>
    /\ UNCHANGED <<now, requests, next_id, issued, bans, users, draft_text, COOLDOWN_UNTIL,
                   ADMIN_WAITING_REPLY_FOR, ADMIN_GROUP_ID, setting>>


(***************************************************************************)
(* Specifications.  Each one is Init and every handler of the program that *)
(* can touch the state its claims speak of; they differ in who sends what, *)
(* so that the reachable states stay within what TLC can enumerate.        *)
(***************************************************************************)
\* command arguments: a user's id as /ban and /unban get it
Tok1 == <<"1">>
Tok2 == <<"2">>
\* a token that is no integer
TokBad == <<"1", "x">>

\* the admin notifications whose Reply/Reject buttons exist
IssuedRids == 1..issued

\* a text that is none of the bottom-menu labels: what submit_draft and
\* complete_reply take
IsFreeText(text) == text \notin MenuLabels

\* A handler's second clock reading, at most `lat` seconds after its first.
Later(CK, lat) == {t \in CK : now <= t /\ t <= now + lat}

Confirm(U, CK, lat, maxReq) ==
    \E u \in U, data \in {CB_CONFIRM_YES, CB_CONFIRM_NO},
       existing \in {NULL} \cup DOMAIN requests, later \in Later(CK, lat) :
        /\ ConfirmBranch(u, data) = "create" => next_id <= maxReq
        /\ on_confirm_callback(u, data, existing, later)

(***************************************************************************)
(* Spec: the request lifecycle.  Two users draft and confirm, the owner    *)
(* replies, rejects, bans, unbans and cleans; the clock has one instant    *)
(* before and one at the end of a cooldown.                                *)
(***************************************************************************)
MaxRequests == 2
LifeClock == {0, CooldownSecs}

Next ==
    \/ \E t \in LifeClock : Tick(t)
    \/ \E u \in Users, text \in {"Hello", "Help"} : user_or_admin_text(u, u, text)
    \/ \E text \in {"Hi there", "Help"} : user_or_admin_text(ADMIN_ID, ADMIN_ID, text)
    \/ Confirm(Users, LifeClock, 0, MaxRequests)
    \/ \E prefix \in {CB_REPLY_PREFIX, CB_REJECT_PREFIX}, n \in IssuedRids :
          admin_buttons(ADMIN_ID, ADMIN_ID, prefix, n, "left")
    \/ \E args \in {<<Tok1>>, <<Tok2>>} : ban_cmd(ADMIN_ID, args)
    \/ \E args \in {<<Tok1>>, <<Tok2>>} : unban_cmd(ADMIN_ID, args)
    \/ \E reset \in BOOLEAN : clean_callback(ADMIN_ID, ADMIN_ID, CB_CLEAN_YES, reset)

Spec == Init /\ [][Next]_vars

(***************************************************************************)
(* SpecThread: threading.  The clock has both sides of the 15-minute       *)
(* window; three requests make a thread of three parts, or two threads.    *)
(* The owner resolves requests by rejecting them (create_request reads a   *)
(* status only to compare it with 'pending').                              *)
(***************************************************************************)
MaxThreadRequests == 3
ThreadClock == {0, CooldownSecs, 2 * CooldownSecs, ThreadWindow + CooldownSecs}

NextThread ==
    \/ \E t \in ThreadClock : Tick(t)
    \/ \E u \in Users : user_or_admin_text(u, u, "Hello")
    \/ Confirm(Users, ThreadClock, 0, MaxThreadRequests)
    \/ \E n \in IssuedRids : admin_buttons(ADMIN_ID, ADMIN_ID, CB_REJECT_PREFIX, n, "left")
    \/ \E reset \in BOOLEAN : clean_callback(ADMIN_ID, ADMIN_ID, CB_CLEAN_YES, reset)

SpecThread == Init /\ [][NextThread]_vars

(***************************************************************************)
(* SpecCooldown: the cooldown gate.  The clock has instants inside, at the *)
(* end of and after a cooldown, and a handler may take up to one Step      *)
(* between its two clock readings.                                         *)
(***************************************************************************)
MaxCooldownRequests == 2
CooldownClock == {0, Step, CooldownSecs, CooldownSecs + Step}

NextCooldown ==
    \/ \E t \in CooldownClock : Tick(t)
    \/ \E u \in Users, text \in {"Hello", "Help"} : user_or_admin_text(u, u, text)
    \/ Confirm(Users, CooldownClock, Step, MaxCooldownRequests)
    \/ \E args \in {<<Tok1>>, <<Tok2>>} : ban_cmd(ADMIN_ID, args)
    \/ \E args \in {<<Tok1>>, <<Tok2>>} : unban_cmd(ADMIN_ID, args)

SpecCooldown == Init /\ [][NextCooldown]_vars

(***************************************************************************)
(* SpecAdmin: the admin console.  Every admin command and every callback   *)
(* is sent by the owner and by the ordinary users alike.                   *)
(***************************************************************************)
MaxAdminRequests == 1

AdminPrefixes == {CB_STAT_PAGE, CB_STAT_USER, CB_STAT_BACK, CB_STAT_REFRESH,
                  CB_GRP_YES, CB_GRP_RETRY, CB_REPLY_PREFIX, CB_REJECT_PREFIX}

\* the number a button of prefix `prefix` can carry
ButtonArgs(prefix) ==
    IF prefix \in {CB_GRP_YES, CB_GRP_RETRY} THEN Groups
    ELSE IF prefix \in {CB_REPLY_PREFIX, CB_REJECT_PREFIX} THEN IssuedRids
    ELSE IF prefix = CB_STAT_USER THEN {1}
    ELSE {0}

TokGroup == <<"-", "1", "0", "0", "1">>

NextAdmin ==
    \/ user_or_admin_text(1, 1, "Hello")
    \/ user_or_admin_text(ADMIN_ID, ADMIN_ID, "Hi there")
    \/ Confirm({1}, {0}, 0, MaxAdminRequests)
    \/ \E u \in Ids, prefix \in AdminPrefixes, member \in {"administrator", "left", "error"} :
          \E n \in ButtonArgs(prefix) :
              /\ prefix \notin {CB_GRP_YES, CB_GRP_RETRY} => member = "left"
              /\ admin_buttons(u, IF is_owner(u) THEN ADMIN_ID ELSE ParseInt(TokGroup), prefix, n, member)
    \/ \E u \in Ids : clean_cmd(u)
    \/ \E u \in Ids, data \in {CB_CLEAN_YES, CB_CLEAN_NO}, reset \in BOOLEAN :
          clean_callback(u, ADMIN_ID, data, reset)
    \/ \E u \in Ids, args \in {<<>>, <<Tok1>>, <<TokBad>>} : ban_cmd(u, args)
    \/ \E u \in Ids, args \in {<<Tok1>>, <<TokBad>>} : unban_cmd(u, args)
    \/ \E u \in Ids, args \in {<<TokGroup>>, <<TokBad>>} : addgrp_cmd(u, args)
    \/ \E u \in Ids, h \in ReadOnlyCmds : read_only_cmd(h, u, u)
    \/ \E u \in Ids : status_cmd(u)
    \/ \E u \in Ids : search_cmd(u, <<>>)

SpecAdmin == Init /\ [][NextAdmin]_vars

(***************************************************************************)
(* SpecClean: the clean prompt.  Both users submit, the owner replies,     *)
(* rejects and bans, and everybody sends /clean and presses both buttons   *)
(* of the prompt; these are all the handlers that write the table.         *)
(***************************************************************************)
MaxCleanRequests == 2

NextClean ==
    \/ \E u \in Users : user_or_admin_text(u, u, "Hello")
    \/ user_or_admin_text(ADMIN_ID, ADMIN_ID, "Hi there")
    \/ Confirm(Users, {0}, 0, MaxCleanRequests)
    \/ \E prefix \in {CB_REPLY_PREFIX, CB_REJECT_PREFIX}, n \in IssuedRids :
          admin_buttons(ADMIN_ID, ADMIN_ID, prefix, n, "left")
    \/ ban_cmd(ADMIN_ID, <<Tok1>>)
    \/ \E u \in Ids : clean_cmd(u)
    \/ \E u \in Ids, data \in {CB_CLEAN_YES, CB_CLEAN_NO}, reset \in BOOLEAN :
          clean_callback(u, ADMIN_ID, data, reset)

SpecClean == Init /\ [][NextClean]_vars

(***************************************************************************)
(* SpecGroup: routing of the admin notification.  The process starts with  *)
(* the settings row an earlier run left (or none) and with the environment *)
(* variable set to a group, to something that is no number, or not at all; *)
(* the owner registers a group, a user submits.                            *)
(***************************************************************************)
MaxGroupRequests == 2
TokEnvGroup == <<"-", "1", "0", "0", "2">>

InitGroup ==
    /\ now = 0
    /\ requests = EmptyDict
    /\ next_id = 1
    /\ issued = 0
    /\ bans = {}
    /\ users = {}
    /\ draft_text = [u \in Ids |-> NONE]
    /\ COOLDOWN_UNTIL = [u \in Ids |-> 0]
    /\ ADMIN_WAITING_REPLY_FOR = EmptyDict
    /\ setting \in {EmptyDict} \cup {DictSet(EmptyDict, "admin_group_id", Str(g)) : g \in Groups}
    /\ environ \in {<<>>, TokEnvGroup, TokBad}
    /\ ADMIN_GROUP_ID = LoadAdminGroupId
    /\ call = NoCall
    /\ tasks = {}
    /\ ev = Ev("init", NULL, NONE, NULL, <<>>)
    /\ out = <<>>

NextGroup ==
    \/ \E t \in LifeClock : Tick(t)
    \/ user_or_admin_text(1, 1, "Hello")
    \/ Confirm({1}, LifeClock, 0, MaxGroupRequests)
    \/ \E args \in {<<TokGroup>>, <<TokBad>>} : addgrp_cmd(ADMIN_ID, args)
    \/ \E prefix \in {CB_GRP_YES, CB_GRP_RETRY}, n \in Groups,
          member \in {"administrator", "left", "error"} :
              admin_buttons(ADMIN_ID, ADMIN_ID, prefix, n, member)

SpecGroup == InitGroup /\ [][NextGroup]_vars

(***************************************************************************)
(* SpecRegister: registering the admin group.  The program starts as in    *)
(* SpecGroup; the owner and the users send /addgrp and press Yes and Retry *)
(* for two groups, and the membership check answers with every status or   *)
(* raises.                                                                 *)
(***************************************************************************)
RegisterGroups == {-1001, -1002}

NextRegister ==
    \/ \E u \in Ids, args \in {<<>>, <<TokGroup>>, <<TokEnvGroup>>, <<TokBad>>} : addgrp_cmd(u, args)
    \/ \E u \in Ids, prefix \in {CB_GRP_YES, CB_GRP_RETRY}, n \in RegisterGroups,
          member \in MemberStatus :
              admin_buttons(u, u, prefix, n, member)

SpecRegister == InitGroup /\ [][NextRegister]_vars

(***************************************************************************)
(* SpecSend: the two transport helpers.  A behaviour is one call, with any *)
(* sequence of MaxResponses transport answers: one more than the loop may  *)
(* use.                                                                    *)
(***************************************************************************)
MaxResponses == 4
RetryAfterSecs == {1, 2}

InitSend ==
    /\ now = 0
    /\ requests = EmptyDict
    /\ next_id = 1
    /\ issued = 0
    /\ bans = {}
    /\ users = {}
    /\ draft_text = [u \in Ids |-> NONE]
    /\ COOLDOWN_UNTIL = [u \in Ids |-> 0]
    /\ ADMIN_WAITING_REPLY_FOR = EmptyDict
    /\ ADMIN_GROUP_ID = NULL
    /\ setting = EmptyDict
    /\ environ = <<>>
    /\ tasks = {}
    /\ call \in {Called(fn, responses, retry_after) :
                    fn \in {"safe_send_message", "safe_edit_message"},
                    responses \in [1..MaxResponses -> Outcomes],
                    retry_after \in RetryAfterSecs}
    /\ ev = Ev("init", NULL, NONE, NULL, <<>>)
    /\ out = <<>>

NextSend ==
    \/ safe_send_message
    \/ safe_edit_message

SpecSend == InitSend /\ [][NextSend]_vars

(***************************************************************************)
(* SpecBan: the owner bans and unbans two users, with and without a        *)
(* reason, at two instants, and the users write.                           *)
(***************************************************************************)
BanClock == {0, CooldownSecs}

TokSpam == <<"s", "p", "a", "m">>

NextBan ==
    \/ \E t \in BanClock : Tick(t)
    \/ \E args \in {<<Tok1>>, <<Tok1, TokSpam>>, <<Tok1, TokSpam, Tok2>>, <<Tok2>>} :
          ban_cmd(ADMIN_ID, args)
    \/ \E args \in {<<Tok1>>, <<Tok2>>} : unban_cmd(ADMIN_ID, args)
    \/ \E u \in Users : user_or_admin_text(u, u, "Hello")

SpecBan == Init /\ [][NextBan]_vars

(***************************************************************************)
(* SpecAwait: on_confirm_callback and the owner's reply step by step.  A   *)
(* coroutine gives way at its awaits; a task is a handler suspended there: *)
(* pc "answer" (await q.answer()), "send" (await safe_send_message) or     *)
(* "edit" (await q.edit_message_text).  The Application is built without   *)
(* concurrent_updates, so it takes the next update when the handler of the *)
(* last one has returned.  The clock moves at any time.  A user drafts a   *)
(* text that user has not submitted before.                                *)
(***************************************************************************)
\* CanDispatch of an Application that handles two updates at a time.
CanDispatchConcurrent == Cardinality(tasks) < 2

\* Application.builder().token(BOT_TOKEN).build(): one update at a time
CanDispatch == tasks = {}

Task(id, h, u, data, pc, rid, chat) ==
    [id |-> id, h |-> h, u |-> u, data |-> data, pc |-> pc, rid |-> rid, chat |-> chat]

FreshTask == CHOOSE i \in 1..(Cardinality(tasks) + 1) : \A t \in tasks : t.id # i

\* What the transport answers to the attempts of one safe_send_message call.
SendResponses ==
    {<<"sent", "sent", "sent">>, <<"RetryAfter", "sent", "sent">>,
     <<"RetryAfter", "RetryAfter", "RetryAfter">>, <<"TelegramError", "sent", "sent">>,
     <<"Exception", "sent", "sent">>}

\* on_confirm_callback up to `await q.answer()`
confirm_begin(u, data) ==
    /\ CanDispatch
    /\ tasks' = tasks \cup {Task(FreshTask, "confirm", u, data, "answer", NULL, u)}
    /\ ev' = Ev("confirm_begin", u, data, NULL, <<>>)
    /\ out' = <<>>
    /\ UNCHANGED <<now, requests, next_id, issued, bans, users, draft_text, COOLDOWN_UNTIL,
                   ADMIN_WAITING_REPLY_FOR, ADMIN_GROUP_ID, setting, environ, call>>

\* from the return of q.answer() to the handler's return or to
\* `await safe_send_message(context.bot, target_chat, ...)`
confirm_run(t, existing) ==
    LET u == t.u
        branch == ConfirmBranch(u, t.data)
        rid == next_id
        row == NewRequest(u, Handle(u), draft_text[u], existing)
        target_chat == IF ADMIN_GROUP_ID # NULL THEN ADMIN_GROUP_ID ELSE ADMIN_ID
    IN
    /\ t \in tasks /\ t.h = "confirm" /\ t.pc = "answer"
    /\ ev' = Ev("confirm_run", u, t.data, NULL, <<>>)
    /\ IF branch = "create"
       THEN /\ existing \in (IF ExistingFirst(u) = {} THEN {NULL} ELSE ExistingFirst(u))
            /\ requests' = DictSet(requests, rid, row)
            /\ next_id' = next_id + 1
            /\ issued' = IF rid > issued THEN rid ELSE issued
            /\ tasks' = (tasks \ {t}) \cup {[t EXCEPT !.pc = "send", !.rid = rid]}
            /\ out' = <<Msg("send", target_chat, "admin_new", rid, row.text)>>
            /\ UNCHANGED draft_text
       ELSE /\ existing = NULL
            /\ draft_text' = IF branch = "no" THEN [draft_text EXCEPT ![u] = NONE] ELSE draft_text
            /\ tasks' = tasks \ {t}
            /\ out' = CASE branch = "banned" -> <<Edit(u, "banned")>>
                        [] branch = "owner" -> <<>>
                        [] OTHER -> <<Edit(u, "write_again")>>
            /\ UNCHANGED <<requests, next_id, issued>>
    /\ UNCHANGED <<now, bans, users, COOLDOWN_UNTIL, ADMIN_WAITING_REPLY_FOR, ADMIN_GROUP_ID,
                   setting, environ, call>>

\* safe_send_message returns (or raises): the draft is dropped, then
\* `await q.edit_message_text(...)`
confirm_sent(t, responses) ==
    LET res == RetryLoop("safe_send_message", responses, 1, 0) IN
    /\ t \in tasks /\ t.h = "confirm" /\ t.pc = "send"
    /\ ev' = Ev("confirm_sent", t.u, res.ret, t.rid, <<>>)
    /\ IF res.ret = "raise"
       THEN /\ tasks' = tasks \ {t}
            /\ out' = <<>>
            /\ UNCHANGED draft_text
       ELSE /\ draft_text' = [draft_text EXCEPT ![t.u] = NONE]
            /\ tasks' = (tasks \ {t}) \cup {[t EXCEPT !.pc = "edit", !.data = res.ret]}
            /\ out' = <<Edit(t.u, "sent_to_admin")>>
    /\ UNCHANGED <<now, requests, next_id, issued, bans, users, COOLDOWN_UNTIL,
                   ADMIN_WAITING_REPLY_FOR, ADMIN_GROUP_ID, setting, environ, call>>

\* q.edit_message_text returns or its TelegramError is caught:
\* COOLDOWN_UNTIL[user.id] = time.time() + 10
confirm_edited(t) ==
    /\ t \in tasks /\ t.h = "confirm" /\ t.pc = "edit"
    /\ ev' = Ev("confirm_edited", t.u, t.data, t.rid, <<>>)
    /\ COOLDOWN_UNTIL' = [COOLDOWN_UNTIL EXCEPT ![t.u] = now + CooldownSecs]
    /\ tasks' = tasks \ {t}
    /\ out' = <<>>
    /\ UNCHANGED <<now, requests, next_id, issued, bans, users, draft_text,
                   ADMIN_WAITING_REPLY_FOR, ADMIN_GROUP_ID, setting, environ, call>>

\* user_or_admin_text of the owner with a request in the reply slot, up to
\* `await safe_send_message(context.bot, target_user_id, aesthetic_reply, ...)`
reply_begin(chat, text) ==
    LET rid == DictGet(ADMIN_WAITING_REPLY_FOR, ADMIN_ID, NULL) IN
    /\ CanDispatch
    /\ TextBranch(ADMIN_ID, text) = "reply"
    /\ tasks' = tasks \cup {Task(FreshTask, "reply", ADMIN_ID, text, "send", rid, chat)}
    /\ ev' = Ev("reply_begin", ADMIN_ID, text, chat, <<>>)
    /\ out' = <<Msg("send", requests[rid].user_id, "owner_reply", NULL, text)>>
    /\ UNCHANGED <<now, requests, next_id, issued, bans, users, draft_text, COOLDOWN_UNTIL,
                   ADMIN_WAITING_REPLY_FOR, ADMIN_GROUP_ID, setting, environ, call>>

\* safe_send_message returns (or raises): set_request_status(rid,
\* "approved"), the slot is popped, the owner is told
reply_sent(t, responses) ==
    LET res == RetryLoop("safe_send_message", responses, 1, 0) IN
    /\ t \in tasks /\ t.h = "reply" /\ t.pc = "send"
    /\ ev' = Ev("reply_sent", ADMIN_ID, res.ret, t.rid, <<>>)
    /\ tasks' = tasks \ {t}
    /\ IF res.ret = "raise"
       THEN /\ out' = <<>>
            /\ UNCHANGED <<requests, ADMIN_WAITING_REPLY_FOR>>
       ELSE /\ requests' = set_request_status(t.rid, "approved")
            /\ ADMIN_WAITING_REPLY_FOR' = DictPop(ADMIN_WAITING_REPLY_FOR, ADMIN_ID)
            /\ out' = <<Send(t.chat, "admin_reply_sent")>>
    /\ UNCHANGED <<now, next_id, issued, bans, users, draft_text, COOLDOWN_UNTIL,
                   ADMIN_GROUP_ID, setting, environ, call>>

AwaitClock == {0, CooldownSecs}

\* The texts user u has submitted.
Submitted(u) == {requests[r].text : r \in {q \in DOMAIN requests : requests[q].user_id = u}}

NextAwait ==
    \/ \E t \in AwaitClock : Tick(t)
    \/ \E u \in Users : \E text \in Texts \ Submitted(u) :
          CanDispatch /\ user_or_admin_text(u, u, text)
    \/ \E text \in Texts :
          CanDispatch /\ TextBranch(ADMIN_ID, text) # "reply"
             /\ user_or_admin_text(ADMIN_ID, ADMIN_ID, text)
    \/ \E n \in IssuedRids : CanDispatch /\ admin_buttons(ADMIN_ID, ADMIN_ID, CB_REPLY_PREFIX, n, "left")
    \/ \E u \in Users, data \in {CB_CONFIRM_YES, CB_CONFIRM_NO} : confirm_begin(u, data)
    \/ \E t \in tasks, existing \in {NULL} \cup DOMAIN requests : confirm_run(t, existing)
    \/ \E t \in tasks, responses \in SendResponses : confirm_sent(t, responses)
    \/ \E t \in tasks : confirm_edited(t)
    \/ \E text \in Texts : reply_begin(ADMIN_ID, text)
    \/ \E t \in tasks, responses \in SendResponses : reply_sent(t, responses)

SpecAwait == Init /\ [][NextAwait]_vars

(***************************************************************************)
(* SpecDraft: a user writes "Hello", then "Hi there" before confirming,    *)
(* and presses Yes or No under either prompt (both carry the same callback *)
(* data); the owner rejects, bans and unbans.                              *)
(***************************************************************************)
MaxDraftRequests == 3
DraftClock == {0, Step, CooldownSecs, 2 * CooldownSecs}

NextDraft ==
    \/ \E t \in DraftClock : Tick(t)
    \/ \E u \in Users : draft_text[u] = NONE /\ user_or_admin_text(u, u, "Hello")
    \/ \E u \in Users : draft_text[u] = "Hello" /\ user_or_admin_text(u, u, "Hi there")
    \/ Confirm({u \in Users : draft_text[u] # "Hello"}, DraftClock, 0, MaxDraftRequests)
    \/ ban_cmd(ADMIN_ID, <<Tok1>>)
    \/ unban_cmd(ADMIN_ID, <<Tok1>>)
    \/ \E n \in IssuedRids : admin_buttons(ADMIN_ID, ADMIN_ID, CB_REJECT_PREFIX, n, "left")

SpecDraft == Init /\ [][NextDraft]_vars

(***************************************************************************)
(* SpecOwner: the owner as a sender.  The owner writes free texts and menu *)
(* labels with and without a request in the reply slot, presses Yes and No *)
(* under a prompt, and is banned and unbanned like a user.                 *)
(***************************************************************************)
MaxOwnerRequests == 2
OwnerClock == {0, CooldownSecs}

TokOwner == <<"7", "3", "7", "0">>

NextOwner ==
    \/ \E t \in OwnerClock : Tick(t)
    \/ user_or_admin_text(1, 1, "Hello")
    \/ \E text \in {"Hi there", "Help", "Language"} : user_or_admin_text(ADMIN_ID, ADMIN_ID, text)
    \/ Confirm({1, ADMIN_ID}, OwnerClock, 0, MaxOwnerRequests)
    \/ \E n \in IssuedRids : admin_buttons(ADMIN_ID, ADMIN_ID, CB_REPLY_PREFIX, n, "left")
    \/ \E args \in {<<Tok1>>, <<TokOwner>>} : ban_cmd(ADMIN_ID, args)
    \/ \E args \in {<<Tok1>>, <<TokOwner>>} : unban_cmd(ADMIN_ID, args)

SpecOwner == Init /\ [][NextOwner]_vars

(***************************************************************************)
(* SpecStatus: the status page.  The users table holds the rows of users   *)
(* 1..n, for every n up to MaxStatusUsers (one more than a page holds),    *)
(* with and without a row of the owner; users and the owner get a row by   *)
(* choosing a language.                                                    *)
(***************************************************************************)
InitStatus ==
    \E n \in 0..MaxStatusUsers, owner \in SUBSET {ADMIN_ID} :
        /\ now = 0
        /\ requests = EmptyDict
        /\ next_id = 1
        /\ issued = 0
        /\ bans = {}
        /\ users = 1..n \cup owner
        /\ draft_text = [u \in Ids |-> NONE]
        /\ COOLDOWN_UNTIL = [u \in Ids |-> 0]
        /\ ADMIN_WAITING_REPLY_FOR = EmptyDict
        /\ ADMIN_GROUP_ID = NULL
        /\ setting = EmptyDict
        /\ environ = <<>>
        /\ call = NoCall
        /\ tasks = {}
        /\ ev = Ev("init", NULL, NONE, NULL, <<>>)
        /\ out = <<>>

NextStatus ==
    \/ \E u \in Ids : status_cmd(u)
    \/ \E prefix \in {CB_STAT_PAGE, CB_STAT_REFRESH, CB_STAT_BACK}, page \in {0, 1} :
          admin_buttons(ADMIN_ID, ADMIN_ID, prefix, page, "left")
    \/ \E u \in Ids : user_or_admin_text(u, u, "Language")

SpecStatus == InitStatus /\ [][NextStatus]_vars

(***************************************************************************)
(* SpecSearch: /search.  The table holds up to MaxSearchRows requests, one *)
(* more than a search returns, submitted ten seconds apart; their handles  *)
(* and bodies are taken in turn from SearchHandles and SearchTexts, from a *)
(* starting point `seed`.                                                  *)
(***************************************************************************)
MaxSearchRows == 11

SearchHandles == << <<"@", "a", "b">>, <<"@", "A", "x", "b">>, <<"(", "n", ")">> >>
SearchTexts == << <<"a", "x", "b">>, <<"a", "_", "b">>, <<"A", "B", "1">>, <<"a", " ", "b">> >>

SearchRow(i, seed) ==
    [user_id |-> 1 + ((i + seed) % 2),
     username |-> SearchHandles[((i + seed) % 3) + 1],
     text |-> SearchTexts[((i + seed) % 4) + 1],
     status |-> "pending",
     created_at |-> i * CooldownSecs,
     thread_id |-> i,
     part_no |-> 1]

SearchArgs ==
    { << <<"@", "a", "b">> >>, << <<"@", "a", "_", "b">> >>, << <<"@">> >>,
      << <<"1">> >>, << <<"2">> >>, << <<"1", "1">> >>,
      << <<"a">> >>, << <<"a", "_", "b">> >>, << <<"b", "1">> >>, << <<"a">>, <<"b">> >>,
      << <<"z">> >> }

InitSearch ==
    \E n \in 0..MaxSearchRows, seed \in 0..3 :
        /\ now = n * CooldownSecs
        /\ requests = [i \in 1..n |-> SearchRow(i, seed)]
        /\ next_id = n + 1
        /\ issued = n
        /\ bans = {}
        /\ users = {1, 2}
        /\ draft_text = [u \in Ids |-> NONE]
        /\ COOLDOWN_UNTIL = [u \in Ids |-> 0]
        /\ ADMIN_WAITING_REPLY_FOR = EmptyDict
        /\ ADMIN_GROUP_ID = NULL
        /\ setting = EmptyDict
        /\ environ = <<>>
        /\ call = NoCall
        /\ tasks = {}
        /\ ev = Ev("init", NULL, NONE, NULL, <<>>)
        /\ out = <<>>

NextSearch ==
    \E u \in Ids, args \in SearchArgs \cup {<<>>} : search_cmd(u, args)

SpecSearch == InitSearch /\ [][NextSearch]_vars

(***************************************************************************)
(* Properties.  A step is identified by the event it handled (ev') and is  *)
(* judged against the state it started from.                               *)
(***************************************************************************)
\* The request ids a step adds to the table.
Created == DOMAIN requests' \ DOMAIN requests

\* The outbound messages of kind k to chat c among the messages o.
OutTo(o, c, k) == {i \in 1..Len(o) : o[i].to = c /\ o[i].kind = k}

\* u sent a text that is not a menu label.
FreeTextBy(e, u) == e.h = "text" /\ e.from = u /\ IsFreeText(e.data)

\* The owner pressed the button `prefix` of request n.
OwnerPressed(e, prefix, n) ==
    e.h = "admin_button" /\ e.from = ADMIN_ID /\ e.data = prefix /\ e.n = n

\* C1: a confirmed submission of user U at time t joins the thread of U's
\* most recently created pending request younger than 15 minutes, with
\* part_no one above the largest part_no of that thread; if U has no such
\* request it starts a thread of its own: part_no 1, thread_id its own id.
C1_Threading ==
    [][\A r \in Created :
         LET u == requests'[r].user_id
             recent == {x \in DOMAIN requests :
                           /\ requests[x].user_id = u
                           /\ requests[x].status = "pending"
                           /\ now - requests[x].created_at < ThreadWindow}
             latest == {x \in recent :
                           \A y \in recent : requests[y].created_at <= requests[x].created_at}
             thread(x) == {y \in DOMAIN requests : requests[y].thread_id = requests[x].thread_id}
         IN IF recent # {}
            THEN \E x \in latest :
                    /\ requests'[r].thread_id = requests[x].thread_id
                    /\ requests'[r].part_no = Max({requests[y].part_no : y \in thread(x)}) + 1
            ELSE /\ requests'[r].part_no = 1
                 /\ requests'[r].thread_id = r]_vars

\* C1 witness: a user has a thread of two parts, both still pending, and a
\* third request confirmed once the younger part was 15 minutes old, which
\* opened a thread of its own.
C1_Witness ==
    /\ ev.h = "confirm"
    /\ \E a, b, c \in DOMAIN requests :
          /\ requests[a].user_id = ev.from /\ requests[b].user_id = ev.from
          /\ requests[c].user_id = ev.from
          /\ requests[a].thread_id = a /\ requests[a].part_no = 1
          /\ requests[b].thread_id = a /\ requests[b].part_no = 2
          /\ requests[a].status = "pending" /\ requests[b].status = "pending"
          /\ requests[c].created_at = requests[b].created_at + ThreadWindow
          /\ requests[c].created_at = now
          /\ requests[c].thread_id = c /\ requests[c].part_no = 1

\* U confirmed a submission less than CooldownSecs ago.
SubmittedWithinCooldown(u) ==
    \E r \in DOMAIN requests :
        requests[r].user_id = u /\ now < requests[r].created_at + CooldownSecs

\* C2 (as stated): within 10 s of a confirmed submission of non-owner U,
\* every further submission attempt of U is answered with the cooldown
\* notice, stores no draft, shows no prompt and creates no request.
C2_Original ==
    [][\A u \in Users : SubmittedWithinCooldown(u) =>
          /\ FreeTextBy(ev', u) =>
                /\ out' = <<Send(u, "cooldown")>>
                /\ requests' = requests
                /\ draft_text' = draft_text
          /\ \A r \in Created : requests'[r].user_id # u]_vars

\* C2: within 10 s of a confirmed submission of non-owner U, every further
\* submission attempt of U is answered with the cooldown notice, or with the
\* banned notice if U has been banned meanwhile; it stores no draft, shows
\* no prompt and creates no request.
C2_Cooldown ==
    [][\A u \in Users : SubmittedWithinCooldown(u) =>
          /\ FreeTextBy(ev', u) =>
                /\ out' = <<Send(u, IF get_ban(u) THEN "banned" ELSE "cooldown")>>
                /\ requests' = requests
                /\ draft_text' = draft_text
          /\ \A r \in Created : requests'[r].user_id # u]_vars

\* C2 witness: U wrote again some seconds after a confirmed submission, less
\* than 10 s after it, and got the cooldown notice.
C2_Witness ==
    /\ ev.h = "text" /\ ev.from \in Users /\ IsFreeText(ev.data)
    /\ \E r \in DOMAIN requests :
          /\ requests[r].user_id = ev.from
          /\ requests[r].created_at < now
          /\ now < requests[r].created_at + CooldownSecs
    /\ out = <<Send(ev.from, "cooldown")>>
    /\ draft_text[ev.from] = NONE

\* C3 (as stated): while a Ban record exists for non-owner U, every text
\* message of U is answered with the banned notice and nothing else; no
\* draft is stored and no confirmation prompt is shown.
C3_BannedTextOnly ==
    [][\A u \in Users : (get_ban(u) /\ ev'.h = "text" /\ ev'.from = u) =>
          /\ out' = <<Send(u, "banned")>>
          /\ draft_text' = draft_text]_vars

\* C4: while a Ban record exists for U no request authored by U is created,
\* and neither an owner reply nor a denial notice is sent to U.
C4_BanGate ==
    [][\A u \in Users : get_ban(u) =>
          /\ \A r \in Created : requests'[r].user_id # u
          /\ OutTo(out', u, "owner_reply") = {}
          /\ OutTo(out', u, "denied") = {}]_vars

\* C4 witness: a banned user pressed Yes under a prompt issued before the
\* ban; the draft is still there and the only answer is the banned notice.
C4_Witness ==
    /\ ev.h = "confirm" /\ ev.data = CB_CONFIRM_YES /\ ev.from \in Users
    /\ get_ban(ev.from)
    /\ draft_text[ev.from] # NONE
    /\ out = <<Edit(ev.from, "banned")>>

\* The reply slot holds request n and nothing else.
SlotHolds(slot, n) == DOMAIN slot = {ADMIN_ID} /\ slot[ADMIN_ID] = n

\* C5: the reply slot holds at most one request id.  Reply pressed for an
\* existing request B of a non-banned author leaves B alone in the slot,
\* whatever it held; the owner's next text then goes to B's author only,
\* turns B only to approved (any other request is left as it was) and
\* empties the slot.
C5_ReplySlot ==
    [][\A b \in DOMAIN requests : ~get_ban(requests[b].user_id) =>
          /\ OwnerPressed(ev', CB_REPLY_PREFIX, b) =>
                SlotHolds(ADMIN_WAITING_REPLY_FOR', b)
          /\ (SlotHolds(ADMIN_WAITING_REPLY_FOR, b) /\ FreeTextBy(ev', ADMIN_ID)) =>
                /\ requests' = [requests EXCEPT ![b].status = "approved"]
                /\ \A i \in 1..Len(out') :
                       out'[i].kind = "owner_reply" => out'[i].to = requests[b].user_id
                /\ Cardinality(OutTo(out', requests[b].user_id, "owner_reply")) = 1
                /\ ADMIN_WAITING_REPLY_FOR' = EmptyDict]_vars

\* C5 witness: Reply was pressed for request B while the slot held another
\* request A; both exist and are pending, and the slot now holds B.
C5_Witness ==
    /\ ev.h = "admin_button" /\ ev.data = CB_REPLY_PREFIX /\ ev.from = ADMIN_ID
    /\ ev.waiting # NULL /\ ev.waiting # ev.n
    /\ HasRequest(ev.waiting) /\ HasRequest(ev.n)
    /\ requests[ev.waiting].status = "pending" /\ requests[ev.n].status = "pending"
    /\ SlotHolds(ADMIN_WAITING_REPLY_FOR, ev.n)

\* C6 (as stated): the status of a request changes at most once, from
\* pending to approved or from pending to rejected, and no other field of a
\* stored request is ever updated.
C6_StatusOnce ==
    [][\A r \in DOMAIN requests \cap DOMAIN requests' :
          requests'[r] # requests[r] =>
             /\ requests[r].status = "pending"
             /\ requests'[r].status \in {"approved", "rejected"}
             /\ requests'[r] = [requests[r] EXCEPT !.status = requests'[r].status]]_vars

\* C7: Reject on an existing request R leaves R rejected whatever its
\* status was and changes nothing else in the table; every press sends the
\* denial notice to R's author once, unless the author is banned.
C7_Reject ==
    [][\A n \in DOMAIN requests : OwnerPressed(ev', CB_REJECT_PREFIX, n) =>
          /\ requests' = [requests EXCEPT ![n].status = "rejected"]
          /\ Cardinality(OutTo(out', requests[n].user_id, "denied")) =
                (IF get_ban(requests[n].user_id) THEN 0 ELSE 1)]_vars

\* C7 witness: Reject was pressed for a request that was rejected already;
\* it is still rejected and its author has been sent the denial again.
C7_Witness ==
    /\ ev.h = "admin_button" /\ ev.data = CB_REJECT_PREFIX /\ ev.from = ADMIN_ID
    /\ ev.status0 = "rejected"
    /\ HasRequest(ev.n) /\ requests[ev.n].status = "rejected"
    /\ out[1] = Send(requests[ev.n].user_id, "denied")

\* u pressed No, or pressed a confirmation button with no draft stored.
CancelOrNoDraft(e, u) ==
    e.h = "confirm" /\ e.from = u /\ (e.data = CB_CONFIRM_NO \/ draft_text[u] = NONE)

\* C8 (as stated): a confirmation with the choice cancel, or with no draft,
\* leaves the Request table, the cooldown map and the reply slot unchanged;
\* the user gets the re-enter prompt, and on cancel the draft is cleared.
C8_Original ==
    [][\A u \in Users : CancelOrNoDraft(ev', u) =>
          /\ UNCHANGED <<requests, COOLDOWN_UNTIL, ADMIN_WAITING_REPLY_FOR>>
          /\ out' = <<Edit(u, "write_again")>>
          /\ ev'.data = CB_CONFIRM_NO => draft_text'[u] = NONE]_vars

\* C8: a confirmation with the choice cancel, or with no draft, leaves the
\* Request table, the cooldown map and the reply slot unchanged; a user who
\* is not banned gets the re-enter prompt and on cancel the draft is
\* cleared; a banned user gets the banned notice and the draft is left as
\* it is.
C8_NoRequest ==
    [][\A u \in Users : CancelOrNoDraft(ev', u) =>
          /\ UNCHANGED <<requests, COOLDOWN_UNTIL, ADMIN_WAITING_REPLY_FOR>>
          /\ IF get_ban(u)
             THEN /\ out' = <<Edit(u, "banned")>>
                  /\ draft_text' = draft_text
             ELSE /\ out' = <<Edit(u, "write_again")>>
                  /\ draft_text' = IF ev'.data = CB_CONFIRM_NO
                                   THEN [draft_text EXCEPT ![u] = NONE]
                                   ELSE draft_text]_vars

\* C8 witness: a user pressed Yes with no draft stored, right after a
\* submission of theirs; the re-enter prompt is the answer and the table
\* holds that one request of theirs only.
C8_Witness ==
    /\ ev.h = "confirm" /\ ev.data = CB_CONFIRM_YES /\ ev.from \in Users
    /\ ~get_ban(ev.from)
    /\ draft_text[ev.from] = NONE
    /\ out = <<Edit(ev.from, "write_again")>>
    /\ Cardinality({r \in DOMAIN requests : requests[r].user_id = ev.from}) = 1

\* u has no request with status pending.
NoPending(u) ==
    \A r \in DOMAIN requests : requests[r].user_id = u => requests[r].status # "pending"

\* C9: end to end.  (1) A text of a user U who is neither banned nor in
\* cooldown is stored as the draft and answered with the confirmation
\* prompt.  (2) Yes pressed by a non-banned U who has a draft and no pending
\* request creates exactly one request: pending, part_no 1, thread_id its
\* own id, carrying the draft; the owner is notified once, with controls
\* carrying that id.  (3) Reply pressed by the owner for that request puts
\* it in the reply slot.  (4) The owner's next text turns the request to
\* approved, reaches U as exactly one reply quoting that text, and empties
\* the slot.
C9_EndToEnd ==
    [][/\ \A u \in Users : (~get_ban(u) /\ now >= COOLDOWN_UNTIL[u] /\ FreeTextBy(ev', u)) =>
             /\ draft_text'[u] = ev'.data
             /\ out' = <<Send(u, "confirm_prompt")>>
       /\ \A u \in Users :
             (/\ ~get_ban(u) /\ draft_text[u] # NONE /\ NoPending(u)
              /\ ev'.h = "confirm" /\ ev'.from = u /\ ev'.data = CB_CONFIRM_YES) =>
                \E r \in Created :
                   /\ Created = {r}
                   /\ requests'[r].user_id = u
                   /\ requests'[r].text = draft_text[u]
                   /\ requests'[r].status = "pending"
                   /\ requests'[r].part_no = 1
                   /\ requests'[r].thread_id = r
                   /\ \A x \in DOMAIN requests : requests'[x] = requests[x]
                   /\ {i \in 1..Len(out') : out'[i].kind = "admin_new"} = {1}
                   /\ out'[1].rid = r
                   /\ out'[1].to = (IF ADMIN_GROUP_ID # NULL THEN ADMIN_GROUP_ID ELSE ADMIN_ID)
       /\ \A r \in DOMAIN requests :
             (~get_ban(requests[r].user_id) /\ OwnerPressed(ev', CB_REPLY_PREFIX, r)) =>
                /\ DictGet(ADMIN_WAITING_REPLY_FOR', ADMIN_ID, NULL) = r
                /\ requests' = requests
       /\ \A r \in DOMAIN requests :
             (/\ ~get_ban(requests[r].user_id)
              /\ DictGet(ADMIN_WAITING_REPLY_FOR, ADMIN_ID, NULL) = r
              /\ FreeTextBy(ev', ADMIN_ID)) =>
                /\ requests'[r].status = "approved"
                /\ {i \in 1..Len(out') : out'[i].kind = "owner_reply"} = {1}
                /\ out'[1] = Msg("send", requests[r].user_id, "owner_reply", NULL, ev'.data)
                /\ ADMIN_ID \notin DOMAIN ADMIN_WAITING_REPLY_FOR']_vars

\* C9 witness: the end of the scenario.  The owner's text answered a
\* request that opens its own thread as part 1: the request is approved,
\* its author has been sent the reply with the owner's text, and the slot
\* is empty.
C9_Witness ==
    /\ ev.h = "text" /\ ev.from = ADMIN_ID /\ IsFreeText(ev.data)
    /\ ev.waiting # NULL /\ HasRequest(ev.waiting)
    /\ requests[ev.waiting].status = "approved"
    /\ requests[ev.waiting].part_no = 1
    /\ requests[ev.waiting].thread_id = ev.waiting
    /\ requests[ev.waiting].user_id \in Users
    /\ out[1] = Msg("send", requests[ev.waiting].user_id, "owner_reply", NULL, ev.data)
    /\ ADMIN_WAITING_REPLY_FOR = EmptyDict

\* The handlers of the admin console.
AdminHandlers ==
    {"admin_button", "clean_cmd", "clean_callback", "ban_cmd", "unban_cmd", "addgrp_cmd",
     "search_cmd"} \cup ReadOnlyCmds

\* C10: no admin command and no admin button invoked by an identity other
\* than the owner changes the Ban records, the stored requests or their
\* status, the reply slot or the admin-group setting.
C10_NonOwnerNoOp ==
    [][(ev'.h \in AdminHandlers /\ ev'.from # ADMIN_ID) =>
          UNCHANGED <<bans, requests, ADMIN_WAITING_REPLY_FOR, ADMIN_GROUP_ID, setting>>]_vars

\* C10 witness: a non-owner pressed the Yes button of the clean prompt while
\* a request was stored; nothing was sent and the request is still there.
C10_Witness ==
    /\ ev.h = "clean_callback" /\ ev.data = CB_CLEAN_YES /\ ev.from \in Users
    /\ requests # EmptyDict
    /\ out = <<>>

\* C11 (as stated): whenever the owner sends reply text while the reply slot
\* holds an existing request R, R is marked approved and the slot is
\* cleared; the text reaches R's author unless the author is banned, and a
\* ban suppresses the delivery only.
C11_CompleteReply ==
    [][\A r \in DOMAIN requests :
          (DictGet(ADMIN_WAITING_REPLY_FOR, ADMIN_ID, NULL) = r /\ FreeTextBy(ev', ADMIN_ID)) =>
             /\ requests' = [requests EXCEPT ![r].status = "approved"]
             /\ ADMIN_WAITING_REPLY_FOR' = EmptyDict
             /\ Cardinality(OutTo(out', requests[r].user_id, "owner_reply")) =
                   (IF get_ban(requests[r].user_id) THEN 0 ELSE 1)]_vars

\* C12 (as stated): Reply or Reject pressed for a request id that no longer
\* exists, and the owner's reply text when the slot holds such an id, report
\* "not found" to the owner, send nothing to anybody else, change no request
\* and leave the reply slot not pointing at the missing request.
C12_NotFound ==
    [][\A n \in IssuedRids \ DOMAIN requests :
          (\/ OwnerPressed(ev', CB_REPLY_PREFIX, n)
           \/ OwnerPressed(ev', CB_REJECT_PREFIX, n)
           \/ (DictGet(ADMIN_WAITING_REPLY_FOR, ADMIN_ID, NULL) = n /\ FreeTextBy(ev', ADMIN_ID))) =>
             /\ out' = <<Send(ADMIN_ID, "not_found")>>
             /\ requests' = requests
             /\ DictGet(ADMIN_WAITING_REPLY_FOR', ADMIN_ID, NULL) # n]_vars

\* C13: Reply pressed by the owner for a request R that does not exist, or
\* whose author is banned, changes neither the reply slot (it is not set to
\* R and not cleared) nor any request; otherwise it sets the slot to R.
C13_StartReply ==
    [][\A n \in IssuedRids : OwnerPressed(ev', CB_REPLY_PREFIX, n) =>
          IF ~HasRequest(n) \/ get_ban(requests[n].user_id)
          THEN /\ ADMIN_WAITING_REPLY_FOR' = ADMIN_WAITING_REPLY_FOR
               /\ requests' = requests
          ELSE SlotHolds(ADMIN_WAITING_REPLY_FOR', n)]_vars

\* C13 witness: Reply was pressed for a request of a banned author while
\* the slot held another request; the slot still holds that other request.
C13_Witness ==
    /\ ev.h = "admin_button" /\ ev.data = CB_REPLY_PREFIX /\ ev.from = ADMIN_ID
    /\ HasRequest(ev.n) /\ get_ban(requests[ev.n].user_id)
    /\ ev.waiting # NULL /\ ev.waiting # ev.n
    /\ SlotHolds(ADMIN_WAITING_REPLY_FOR, ev.waiting)
    /\ out = <<Send(ADMIN_ID, "cannot_reply_banned")>>

\* u pressed the button `data` of the clean prompt.
CleanPressed(e, u, data) == e.h = "clean_callback" /\ e.from = u /\ e.data = data

\* C14: a stored request disappears only in a step in which the owner
\* presses Yes under the clean prompt, and that step deletes every request;
\* the /clean command by itself and the No button leave requests, bans,
\* users, settings, drafts, cooldowns and the reply slot as they were.
C14_Clean ==
    [][/\ DOMAIN requests \ DOMAIN requests' # {} => CleanPressed(ev', ADMIN_ID, CB_CLEAN_YES)
       /\ CleanPressed(ev', ADMIN_ID, CB_CLEAN_YES) => requests' = EmptyDict
       /\ (ev'.h = "clean_cmd" \/ (ev'.h = "clean_callback" /\ ev'.data = CB_CLEAN_NO)) =>
             UNCHANGED <<requests, bans, users, setting, ADMIN_GROUP_ID,
                         ADMIN_WAITING_REPLY_FOR, draft_text, COOLDOWN_UNTIL>>]_vars

\* C14 witness: the owner pressed No under the clean prompt while two
\* requests were stored, a user was banned and a reply was under way; the
\* answer is the acknowledgment and everything is still there.
C14_Witness ==
    /\ CleanPressed(ev, ADMIN_ID, CB_CLEAN_NO)
    /\ Cardinality(DOMAIN requests) = 2
    /\ bans # {}
    /\ ADMIN_WAITING_REPLY_FOR # EmptyDict
    /\ out = <<Edit(ADMIN_ID, "clean_cancelled")>>

\* tok is a decimal integer: an optional sign and one digit or more.
ValidInteger(tok) ==
    \E k \in 0..1 :
        /\ Len(tok) > k
        /\ k = 1 => tok[1] \in {"+", "-"}
        /\ \A i \in (k + 1)..Len(tok) : tok[i] \in {"0", "1", "2", "3", "4", "5", "6", "7", "8", "9"}

\* C15: /ban, /unban or /addgrp sent by the owner with a first argument that
\* is no integer is answered with the "invalid" message and changes no state.
C15_InvalidArgument ==
    [][(/\ ev'.h \in {"ban_cmd", "unban_cmd", "addgrp_cmd"} /\ ev'.from = ADMIN_ID
        /\ ev'.args # <<>> /\ ~ValidInteger(ev'.args[1])) =>
          /\ out' = <<Send(ADMIN_ID, IF ev'.h = "addgrp_cmd" THEN "invalid_group_id"
                                     ELSE "invalid_user_id")>>
          /\ UNCHANGED <<bans, setting, ADMIN_GROUP_ID, requests, users,
                         ADMIN_WAITING_REPLY_FOR, draft_text, COOLDOWN_UNTIL>>]_vars

\* C15 witness: the owner sent /unban with an argument that is no integer
\* while a Ban record was stored; the record is still there.
C15_Witness ==
    /\ ev.h = "unban_cmd" /\ ev.from = ADMIN_ID
    /\ ev.args # <<>> /\ ~ValidInteger(ev.args[1])
    /\ bans # {}
    /\ out = <<Send(ADMIN_ID, "invalid_user_id")>>

\* The settings table has a row admin_group_id.
GroupSettingSet == "admin_group_id" \in DOMAIN setting

\* The chat the admin notification of a confirmed submission went to.
NotifiedChat(o) == o[CHOOSE i \in 1..Len(o) : o[i].kind = "admin_new"].to

\* C16 (as stated): when the admin_group_id setting is set as a submission
\* is confirmed, the new-request notification goes to that group and not to
\* the owner's private chat; when it is not set, it goes to the owner's
\* private chat.
C16_Original ==
    [][Created # {} =>
          IF GroupSettingSet
          THEN /\ NotifiedChat(out') = ParseInt(setting["admin_group_id"])
               /\ NotifiedChat(out') # ADMIN_ID
          ELSE NotifiedChat(out') = ADMIN_ID]_vars

\* C16: when the admin_group_id setting is set as a submission is
\* confirmed, the new-request notification goes to that group and not to
\* the owner's private chat; when it is not set, it goes to the group
\* named by the environment variable ADMINGROUPID the process was started
\* with, and to the owner's private chat if that variable is unset or names
\* no group.
C16_GroupRouting ==
    [][Created # {} =>
          IF GroupSettingSet
          THEN /\ NotifiedChat(out') = ParseInt(setting["admin_group_id"])
               /\ NotifiedChat(out') # ADMIN_ID
          ELSE IF ValidInteger(environ) /\ ParseInt(environ) # 0
               THEN NotifiedChat(out') = ParseInt(environ)
               ELSE NotifiedChat(out') = ADMIN_ID]_vars

\* C16 witness: a submission was confirmed while the settings row named one
\* group and the environment another; the notification went to the group
\* of the row.
C16_Witness ==
    /\ ev.h = "confirm" /\ ev.data = CB_CONFIRM_YES
    /\ Len(out) = 2 /\ out[1].kind = "admin_new"
    /\ GroupSettingSet /\ environ = TokEnvGroup
    /\ ParseInt(setting["admin_group_id"]) # ParseInt(environ)
    /\ out[1].to = ParseInt(setting["admin_group_id"])

ContainsCI(str, q) ==
    \E i \in 0..(Len(str) - Len(q)) : \A j \in 1..Len(q) : Lower(str[i + j]) = Lower(q[j])

\* The requests a query matches: by handle after '@', by author id or
\* request id for a number, by body otherwise.
Matches(query) ==
    IF query[1] = "@"
    THEN {r \in DOMAIN requests : ContainsCI(requests[r].username, Tail(query))}
    ELSE IF \A i \in 1..Len(query) : query[i] \in {"0", "1", "2", "3", "4", "5", "6", "7", "8", "9"}
    THEN {r \in DOMAIN requests : requests[r].user_id = DigitsVal(query) \/ r = DigitsVal(query)}
    ELSE {r \in DOMAIN requests : ContainsCI(requests[r].text, query)}

\* The requests an answer to /search lists, in its order.
Found(o) == IF o[1].kind = "search_results" THEN o[1].text ELSE <<>>

\* C18 (as stated): search(query) returns the 10 newest requests (all of
\* them if fewer) that match the query by its shape, newest first, and no
\* request that does not match.
C18_Search ==
    (ev.h = "search_cmd" /\ ev.from = ADMIN_ID /\ ev.args # <<>>) =>
        LET res == Found(out)
            M == Matches(Join(ev.args))
        IN /\ Len(res) = (IF Cardinality(M) < 10 THEN Cardinality(M) ELSE 10)
           /\ \A i \in 1..Len(res) : res[i] \in M
           /\ \A i, j \in 1..Len(res) :
                 i < j => requests[res[i]].created_at > requests[res[j]].created_at
           /\ \A r \in M \ {res[i] : i \in 1..Len(res)} :
                 \A i \in 1..Len(res) : requests[r].created_at < requests[res[i]].created_at

\* For a query without the LIKE wildcards % and _ the search returns what
\* the statement above describes.
SearchLiteralQuery ==
    (\A i \in 1..Len(ev.args) : \A j \in 1..Len(ev.args[i]) : ev.args[i][j] \notin {"%", "_"})
        => C18_Search

\* The stored requests of the thread of request r.
ThreadOf(r) == {q \in DOMAIN requests : requests[q].thread_id = requests[r].thread_id}

\* C19: every stored request has a thread_id; the first request of a thread
\* has its own id as thread_id; within a thread the part numbers strictly
\* increase in creation order, so no two requests of a thread share one.
C19_ThreadInvariants ==
    \A r \in DOMAIN requests :
        /\ requests[r].thread_id # NULL
        /\ \E first \in ThreadOf(r) :
              /\ \A q \in ThreadOf(r) : first <= q
              /\ requests[first].thread_id = first
        /\ \A q \in ThreadOf(r) :
              q < r => /\ requests[q].part_no < requests[r].part_no
                       /\ requests[q].created_at <= requests[r].created_at

\* C19 witness: a thread of three requests, parts 1, 2 and 3, whose second
\* part was rejected before the third was submitted.
C19_Witness ==
    \E a, b, c \in DOMAIN requests :
        /\ a < b /\ b < c
        /\ requests[a].thread_id = a /\ requests[b].thread_id = a /\ requests[c].thread_id = a
        /\ requests[a].part_no = 1 /\ requests[b].part_no = 2 /\ requests[c].part_no = 3
        /\ requests[b].status = "rejected"
        /\ requests[c].status = "pending"

\* The owner sent /ban or /unban with an integer first argument.
BanCommand(e, h) ==
    e.h = h /\ e.from = ADMIN_ID /\ e.args # <<>> /\ ValidInteger(e.args[1])

\* C20: a user has at most one Ban record, and is banned exactly when the
\* record exists.  ban(U) leaves exactly one record of U, with the reason and
\* the time of this call, whether or not U had one; unban(U) removes U's
\* record, and changes nothing when there is none.  No other user's record
\* is touched.
C20_BanRecords ==
    [][/\ \A a, b \in bans' : a.user_id = b.user_id => a = b
       /\ \A u \in Users :
             FreeTextBy(ev', u) => (out' = <<Send(u, "banned")>> <=> \E b \in bans : b.user_id = u)
       /\ BanCommand(ev', "ban_cmd") =>
             LET U == DigitsVal(ev'.args[1])
                 reason == IF Len(ev'.args) > 1 THEN Join(Tail(ev'.args)) ELSE <<"No reason">>
             IN bans' = {b \in bans : b.user_id # U}
                           \cup {[user_id |-> U, reason |-> reason, banned_at |-> now]}
       /\ BanCommand(ev', "unban_cmd") =>
             LET U == DigitsVal(ev'.args[1])
             IN /\ bans' = {b \in bans : b.user_id # U}
                /\ (~\E b \in bans : b.user_id = U) => bans' = bans]_vars

\* C20 witness: the owner banned again, for another reason, a user banned
\* ten seconds before; the one record of that user carries the new reason
\* and the new time, and the record of the other banned user is as it was.
C20_Witness ==
    /\ BanCommand(ev, "ban_cmd")
    /\ ev.ban0 = {[user_id |-> 1, reason |-> <<"No reason">>, banned_at |-> 0]}
    /\ bans = {[user_id |-> 1, reason |-> TokSpam, banned_at |-> CooldownSecs],
               [user_id |-> 2, reason |-> <<"No reason">>, banned_at |-> 0]}

\* The handler of a Yes pressed by u has run to its first send or its return.
PressedYes(e, u) == e.h = "confirm_run" /\ e.from = u /\ e.data = CB_CONFIRM_YES

NoStateChange ==
    UNCHANGED <<now, requests, next_id, issued, bans, users, draft_text, COOLDOWN_UNTIL,
                ADMIN_WAITING_REPLY_FOR, ADMIN_GROUP_ID, setting>>

\* What C23 says of every step, given the owner texts T it speaks of.
OwnerNeverAuthors(T) ==
    /\ \A r \in DOMAIN requests' : requests'[r].user_id # ADMIN_ID
    /\ (ev'.h = "text" /\ ev'.from = ADMIN_ID /\ ev'.data \in T
           /\ DictGet(ADMIN_WAITING_REPLY_FOR, ADMIN_ID, NULL) = NULL)
          => /\ out' = <<Send(ADMIN_ID, "owner_self")>>
             /\ NoStateChange
    /\ (ev'.h = "text" /\ ev'.from = ADMIN_ID)
          => /\ OutTo(out', ADMIN_ID, "banned") = {}
             /\ OutTo(out', ADMIN_ID, "cooldown") = {}
             /\ draft_text' = draft_text
             /\ COOLDOWN_UNTIL' = COOLDOWN_UNTIL
    /\ (ev'.h = "confirm" /\ ev'.from = ADMIN_ID)
          => /\ out' = <<>>
             /\ NoStateChange

\* C23 (as stated): no stored Request has the owner as author; every owner
\* text sent while the reply slot is empty yields only the self-message
\* notice and changes no state; no owner text is answered with the banned or
\* the cooldown notice; a confirm button pressed by the owner does nothing.
C23_Original == [][OwnerNeverAuthors(Texts \cup MenuLabels)]_vars

\* C23 (amended): the same, for the owner texts that are not one of the four
\* bottom-menu labels.
C23_OwnerNeverAuthors == [][OwnerNeverAuthors(Texts)]_vars

\* C23 witness: the owner, banned and with an empty reply slot, wrote a free
\* text while a request was pending, and was answered with the self-message
\* notice.
C23_Witness ==
    /\ ev.h = "text" /\ ev.from = ADMIN_ID /\ ev.data = "Hi there"
    /\ ev.waiting = NULL
    /\ get_ban(ADMIN_ID)
    /\ \E r \in DOMAIN requests : requests[r].status = "pending"
    /\ out = <<Send(ADMIN_ID, "owner_self")>>
    /\ draft_text[ADMIN_ID] = NONE

\* The status page was sent or redrawn for the owner.
StatusShown(e, o) ==
    /\ e.from = ADMIN_ID
    /\ \/ e.h = "status_cmd"
       \/ e.h = "admin_button" /\ e.data \in {CB_STAT_PAGE, CB_STAT_REFRESH, CB_STAT_BACK}
    /\ Len(o) = 1 /\ o[1].kind = "status_page"

\* C24 (as stated): the total shown on the status page is the number of
\* stored users other than the owner, for any number of stored users,
\* whether or not the owner has a User record.
C24_StatusTotal ==
    StatusShown(ev, out) => out[1].text.total = Cardinality(users \ {ADMIN_ID})

\* The Yes or the Retry button of /addgrp was pressed.
GroupPressed(e) == e.h = "admin_button" /\ e.data \in {CB_GRP_YES, CB_GRP_RETRY}

\* The membership check of that press found the bot administrator or creator.
CheckPassed(e) == e.args[1] \in {"administrator", "creator"}

\* C25: the settings table and the routing target ADMIN_GROUP_ID change only
\* when the owner presses Yes or Retry of /addgrp and the membership check
\* answers administrator or creator.  After any other answer, or an error,
\* of the check both are as before.  After a registration the settings row
\* and the routing target name the same group, the one of the button.
C25_Registration ==
    [][/\ (setting' # setting \/ ADMIN_GROUP_ID' # ADMIN_GROUP_ID)
             => (GroupPressed(ev') /\ ev'.from = ADMIN_ID /\ CheckPassed(ev'))
       /\ (GroupPressed(ev') /\ ev'.from = ADMIN_ID /\ ~CheckPassed(ev'))
             => (setting' = setting /\ ADMIN_GROUP_ID' = ADMIN_GROUP_ID)
       /\ (GroupPressed(ev') /\ ev'.from = ADMIN_ID /\ CheckPassed(ev'))
             => /\ DOMAIN setting' = DOMAIN setting \cup {"admin_group_id"}
                /\ ParseInt(setting'["admin_group_id"]) = ev'.n
                /\ ADMIN_GROUP_ID' = ev'.n]_vars

\* C25 witness: the owner pressed Retry for group -1001, of which the bot is
\* the creator, while the environment variable names another group; row and
\* routing target now name -1001.
C25_Witness ==
    /\ GroupPressed(ev) /\ ev.from = ADMIN_ID /\ ev.data = CB_GRP_RETRY
    /\ ev.args = <<"creator">> /\ ev.n = -1001
    /\ environ = TokEnvGroup
    /\ setting["admin_group_id"] = TokGroup
    /\ ADMIN_GROUP_ID = -1001
    /\ out = <<Edit(ADMIN_ID, "group_done"), Send(-1001, "group_activated")>>

\* C26: a send that is dropped does not keep its handler from finishing.
\* When the send of the owner's notification returns, delivered or not, the
\* Request is stored, the draft is cleared and the handler goes on to start
\* the cooldown of 10 seconds; when the send of the owner's reply returns,
\* delivered or not, the request is approved and the reply slot is empty.
C26_FailedSend ==
    [][/\ ev'.h = "confirm_sent" =>
             /\ HasRequest(ev'.n) /\ requests' = requests
             /\ requests[ev'.n].user_id = ev'.from
             /\ draft_text'[ev'.from] = NONE
             /\ \E t \in tasks' : t.h = "confirm" /\ t.pc = "edit" /\ t.u = ev'.from
       /\ ev'.h = "confirm_edited" =>
             /\ HasRequest(ev'.n) /\ requests' = requests
             /\ draft_text'[ev'.from] = NONE
             /\ COOLDOWN_UNTIL'[ev'.from] = now + CooldownSecs
       /\ ev'.h = "reply_sent" =>
             /\ HasRequest(ev'.n)
             /\ requests' = [requests EXCEPT ![ev'.n].status = "approved"]
             /\ ADMIN_WAITING_REPLY_FOR' = EmptyDict]_vars

\* C26 witness: the owner's notification of request 1 was dropped after
\* three rate-limit signals or an error; the handler has run to its end,
\* the request is stored and pending, the draft is gone and the cooldown
\* runs.
C26_Witness ==
    /\ ev.h = "confirm_edited" /\ ev.data = "None" /\ ev.n = 1
    /\ tasks = {}
    /\ HasRequest(1) /\ requests[1].status = "pending" /\ requests[1].user_id = ev.from
    /\ draft_text[ev.from] = NONE
    /\ COOLDOWN_UNTIL[ev.from] = now + CooldownSecs

\* The owner's reply was dropped; the request is approved and the slot empty.
ReplyDropped ==
    /\ ev.h = "reply_sent" /\ ev.data = "None"
    /\ requests[ev.n].status = "approved"
    /\ ADMIN_WAITING_REPLY_FOR = EmptyDict

\* C27: the threads of a user do not interleave: of two requests of one
\* user the later one has the same or a larger thread_id, so a submission
\* never joins a thread older than the user's newest.
C27_NoInterleaving ==
    \A a, b \in DOMAIN requests :
        (a < b /\ requests[a].user_id = requests[b].user_id)
            => /\ requests[a].created_at <= requests[b].created_at
               /\ requests[a].thread_id <= requests[b].thread_id

\* C27 witness: a user's first request was rejected, the second opened a
\* new thread, and the third joined that thread as its second part.
C27_Witness ==
    /\ DOMAIN requests = {1, 2, 3}
    /\ \A r \in DOMAIN requests : requests[r].user_id = 1
    /\ requests[1].thread_id = 1 /\ requests[1].status = "rejected"
    /\ requests[2].thread_id = 2 /\ requests[2].part_no = 1
    /\ requests[3].thread_id = 2 /\ requests[3].part_no = 2
    /\ requests[3].created_at - requests[1].created_at < ThreadWindow

\* C28: every thread is well formed.  The requests of one thread_id have one
\* author; their part numbers are 1..k, each once; the part 1 is the request
\* whose id is the thread_id; no request has a thread_id above its own id.
C28_WellFormedThreads ==
    \A r \in DOMAIN requests :
        LET thread == ThreadOf(r) IN
        /\ \A q \in thread : requests[q].user_id = requests[r].user_id
        /\ {requests[q].part_no : q \in thread} = 1..Cardinality(thread)
        /\ requests[r].part_no = 1 <=> r = requests[r].thread_id
        /\ requests[r].thread_id <= r

\* C28 witness: two users hold a thread each, and the id of the one thread
\* lies between the ids of the two parts of the other.
C28_Witness ==
    /\ DOMAIN requests = {1, 2, 3}
    /\ requests[1].user_id = 1 /\ requests[2].user_id = 2 /\ requests[3].user_id = 1
    /\ requests[1].thread_id = 1 /\ requests[1].part_no = 1
    /\ requests[2].thread_id = 2 /\ requests[2].part_no = 1
    /\ requests[3].thread_id = 1 /\ requests[3].part_no = 2

\* C29: rejecting a stored request R changes the status of R and nothing
\* else: the reply slot (also when it holds R), the cooldowns, the drafts,
\* the Ban records and every other Request are as before.
C29_RejectFrame ==
    [][\A n \in DOMAIN requests : OwnerPressed(ev', CB_REJECT_PREFIX, n) =>
          /\ requests' = [requests EXCEPT ![n].status = "rejected"]
          /\ UNCHANGED <<ADMIN_WAITING_REPLY_FOR, COOLDOWN_UNTIL, draft_text, bans>>
          /\ UNCHANGED <<now, next_id, issued, users, ADMIN_GROUP_ID, setting>>]_vars

\* C29 witness: the owner rejected request 1 while the reply slot held it,
\* its author held a new draft, the author of request 2 was cooling down
\* and a user was banned; the slot still holds request 1 and request 2 is
\* pending.
C29_Witness ==
    /\ OwnerPressed(ev, CB_REJECT_PREFIX, 1)
    /\ ev.waiting = 1 /\ ev.status0 = "pending"
    /\ SlotHolds(ADMIN_WAITING_REPLY_FOR, 1)
    /\ HasRequest(1) /\ requests[1].status = "rejected"
    /\ HasRequest(2) /\ requests[2].status = "pending"
    /\ draft_text[requests[1].user_id] # NONE
    /\ COOLDOWN_UNTIL[requests[2].user_id] > now
    /\ bans # {}

\* The steps of the handlers that run for an update of a user.
UserSteps == {"text", "confirm_begin", "confirm_run", "confirm_sent", "confirm_edited"}

\* C30: submissions of different users, in whatever order their updates and
\* the steps of their handlers come, get ids of their own and thread_ids of
\* their own; an update of one user leaves every stored request as it is,
\* adds at most a request of that user under an unused id, and leaves the
\* draft and the cooldown of every other user as they are.
C30_UsersApart ==
    [][/\ \A a, b \in DOMAIN requests' :
             requests'[a].user_id # requests'[b].user_id
                => requests'[a].thread_id # requests'[b].thread_id
       /\ \A u \in Users : (ev'.from = u /\ ev'.h \in UserSteps) =>
             /\ \A r \in DOMAIN requests : r \in DOMAIN requests' /\ requests'[r] = requests[r]
             /\ \A r \in Created : requests'[r].user_id = u
             /\ Cardinality(Created) <= 1
             /\ \A v \in Ids \ {u} :
                   /\ draft_text'[v] = draft_text[v]
                   /\ COOLDOWN_UNTIL'[v] = COOLDOWN_UNTIL[v]]_vars

\* C30 witness: the second user's submission has run to its end while the
\* first user, whose request is stored, holds a new draft; the two requests
\* are threads of their own and the two cooldowns end at different times.
C30_Witness ==
    /\ ev.h = "confirm_edited" /\ ev.from = 2 /\ ev.n = 2
    /\ DOMAIN requests = {1, 2}
    /\ requests[1].user_id = 1 /\ requests[1].thread_id = 1 /\ requests[1].part_no = 1
    /\ requests[2].user_id = 2 /\ requests[2].thread_id = 2 /\ requests[2].part_no = 1
    /\ draft_text[1] # NONE /\ draft_text[2] = NONE
    /\ COOLDOWN_UNTIL[1] < COOLDOWN_UNTIL[2]

====
